---- MODULE Spec2Model ----
(***************************************************************************)
(* Per-VM migration resource convergence engine (plan.KubeVirt).          *)
(* The target cluster is a label-indexed object store; every Ensure and   *)
(* Delete handler is a short sequence of store calls made by a reconcile  *)
(* pass.  Each store call is one step, so passes interleave between       *)
(* calls exactly as two reconciles against one API server do.             *)
(***************************************************************************)
EXTENDS Integers, Sequences, FiniteSets, TLC

VARIABLES
    store,      \* objects of the target cluster
    seq,        \* objects created so far (source of uids and generated-name suffixes)
    vmStatus,   \* plan.VMStatus of each VM: Name, Firmware
    pc,         \* position of each reconcile pass inside its handler
    call,       \* locals of the handler each pass is running
    last,       \* the most recently returned handler call
    dirty,      \* a store change happened since `last` returned
    quota,      \* objects the behaviour may create (bounds seq)
    provider,   \* source provider credentials (r.Source.Secret.Data)
    pod,        \* conversion pod status and its control server
    step        \* plan.Step of the image-conversion step

vars == <<store, seq, vmStatus, pc, call, last, dirty, quota, provider, pod, step>>

----------------------------------------------------------------------------
(* Bounds *)

MaxSeq == 2          \* objects created in one behaviour
MaxPVCs == 1         \* claims the volume controllers create per VM and migration

(* Universe *)

VMIDs == {"a", "b"}
Migrations == {"m1", "m2"}
Passes == DOMAIN pc     \* the reconcile passes of the behaviour
PlanUID == "p1"
PlanName == "plan"
TargetNamespace == "target"

----------------------------------------------------------------------------
(* Label scheme *)

kMigration == "migration"
kPlan == "plan"
kVM == "vmID"
kApp == "forklift.app"

planLabels(m) == (kMigration :> m) @@ (kPlan :> PlanUID)

vmLabels(m, id) == planLabels(m) @@ (kVM :> id)

\* A selector that keeps the migration label.
vmAllButMigrationLabels_Kept(m, id) == vmLabels(m, id)

vmAllButMigrationLabels(m, id) ==
    [k \in (DOMAIN vmLabels(m, id)) \ {kMigration} |-> vmLabels(m, id)[k]]

conversionLabels(m, id, filterOutMigrationLabel) ==
    (kApp :> "virt-v2v") @@
        (IF filterOutMigrationLabel THEN vmAllButMigrationLabels(m, id) ELSE vmLabels(m, id))

consumerLabels(m, id, filterOutMigrationLabel) ==
    (kApp :> "consumer") @@
        (IF filterOutMigrationLabel THEN vmAllButMigrationLabels(m, id) ELSE vmLabels(m, id))

\* labels.SelectorFromSet: every key of the selector is present with that value.
Matches(sel, labels) ==
    \A k \in DOMAIN sel : k \in DOMAIN labels /\ labels[k] = sel[k]

----------------------------------------------------------------------------
(* Resource store *)

NoData == [none |-> ""]

Obj(kind, name, uid, labels, data) ==
    [kind |-> kind, ns |-> TargetNamespace, name |-> name, uid |-> uid,
     labels |-> labels, data |-> data, owners |-> {}, deleting |-> FALSE]

\* client.List with a label selector and the target namespace.
List(s, kind, sel) ==
    {o \in s : o.kind = kind /\ o.ns = TargetNamespace /\ Matches(sel, o.labels)}

Exists(s, kind, name) ==
    \E o \in s : o.kind = kind /\ o.ns = TargetNamespace /\ o.name = name

\* GenerateName: the server appends a suffix no other object has.
getGeneratedName(id) == <<PlanName, "-", id, "-">>

Generated(prefix, n) == prefix \o <<ToString(n)>>

OwnerRef(o) == [kind |-> o.kind, name |-> o.name, uid |-> o.uid]

----------------------------------------------------------------------------
(* VM display names *)

NameMaxLength == 63

Lower == {"a", "m", "v", "y"}
Upper == {"M", "V"}
Digits == {"1"}

\* k8svalidation.IsDNS1123Label
IsDNS1123Label(n) ==
    /\ Len(n) >= 1
    /\ Len(n) <= NameMaxLength
    /\ \A i \in 1..Len(n) : n[i] \in Lower \cup Digits \cup {"-"}
    /\ n[1] # "-"
    /\ n[Len(n)] # "-"

ToLower(c) == IF c = "M" THEN "m" ELSE IF c = "V" THEN "v" ELSE c

RECURSIVE TrimLeft(_)
TrimLeft(n) == IF n # <<>> /\ Head(n) = "-" THEN TrimLeft(Tail(n)) ELSE n

RECURSIVE TrimRight(_)
TrimRight(n) ==
    IF n # <<>> /\ n[Len(n)] = "-" THEN TrimRight(SubSeq(n, 1, Len(n) - 1)) ELSE n

\* The rewrite of a name that violates the DNS-label grammar: lower-case it,
\* put a hyphen for every character outside the grammar, cut it to the
\* maximum length and drop leading and trailing hyphens.
changeVmNameDNS1123(n) ==
    LET lowered == [i \in 1..Len(n) |->
                      IF ToLower(n[i]) \in Lower \cup Digits \cup {"-"}
                      THEN ToLower(n[i]) ELSE "-"]
        cut == SubSeq(TrimLeft(lowered), 1,
                      IF Len(TrimLeft(lowered)) < NameMaxLength
                      THEN Len(TrimLeft(lowered)) ELSE NameMaxLength)
    IN  TrimRight(cut)

\* Names of the source VMs (the Source VM descriptor's name).
SourceName(id) ==
    IF id = "a" THEN <<"v", "m", "-", "a">> ELSE <<"M", "y", "_", "V", "M", "!">>

----------------------------------------------------------------------------
(* Reconcile passes *)

\* clean: nothing but the handler itself wrote to the store while it ran.
\* repeat: the handler runs on the heels of a clean call of the same handler
\* for the same VM and migration that returned no error, and nothing has
\* written to the store since that call returned.
NoSecretData ==
    [Data |-> [password |-> "", secretKey |-> ""],
     StringData |-> [password |-> "", secretKey |-> ""]]

\* items: the listed objects; obj: the object adopted or created; req: the
\* requested volumes; made, created: the objects the call created and their
\* places in req; err: the handler's err variable; at: the place in req the loop is at; secretData: the Secret
\* content built for the call.
NoCall ==
    [op |-> "none", vm |-> "a", mig |-> "m1", items |-> {}, obj |-> {}, req |-> <<>>,
     at |-> 1, made |-> {}, created |-> {}, secretData |-> NoSecretData,
     err |-> "nil", log |-> {}, repeat |-> FALSE, clean |-> TRUE]

NoLast ==
    [op |-> "none", vm |-> "a", mig |-> "m1", err |-> "nil", log |-> {},
     req |-> <<>>, made |-> {}, created |-> {},
     repeat |-> FALSE, clean |-> TRUE]

\* Calls are recorded in `last` in the behaviours that start with a record.
Recording == last.op # "off"

NotRecording == [NoLast EXCEPT !.op = "off"]

\* The locals of a handler that is entered.
NewCall(op, id, m, items) ==
    [op |-> op, vm |-> id, mig |-> m, items |-> items, obj |-> {}, req |-> <<>>,
     at |-> 1, made |-> {}, created |-> {}, secretData |-> NoSecretData,
     err |-> "nil", log |-> {},
     clean |-> TRUE,
     repeat |-> /\ ~dirty
                /\ last.op = op /\ last.vm = id /\ last.mig = m
                /\ last.err = "nil" /\ last.clean]

\* A pass enters a handler.
Begin(w, op, id, m, items) ==
    /\ pc[w] = "idle"
    /\ call' = [call EXCEPT ![w] = NewCall(op, id, m, items)]

\* The handler of pass w returns err.
Return(w, c, err) ==
    /\ pc' = [pc EXCEPT ![w] = "idle"]
    /\ call' = [call EXCEPT ![w] = NoCall]
    /\ last' = IF Recording
               THEN [op |-> c.op, vm |-> c.vm, mig |-> c.mig, err |-> err,
                     log |-> c.log, req |-> c.req, made |-> c.made,
                     created |-> c.created, repeat |-> c.repeat, clean |-> c.clean]
               ELSE last
    /\ dirty' = FALSE

\* Locals of every pass after pass w wrote to the store and has locals c.
Wrote(w, c) ==
    [x \in Passes |-> IF x = w THEN c
                      ELSE IF Recording /\ pc[x] # "idle"
                      THEN [call[x] EXCEPT !.clean = FALSE] ELSE call[x]]

Logged(c, verb, kind) ==
    IF Recording THEN [c EXCEPT !.log = @ \cup {<<verb, kind>>}] ELSE c

\* The locals after the call created object o.
Made(c, o) ==
    IF Recording THEN [Logged(c, "Create", o.kind) EXCEPT !.made = @ \cup {o}] ELSE c

----------------------------------------------------------------------------
(* Target VM synthesis *)

\* emptyVm, vmPreference and vmTemplate: the three shapes of the VM definition.
\* A template brings its own labels; the ownership labels are written over them.
emptyVm_NoVMLabel(m, id, name, uid) ==
    Obj("VirtualMachine", name, uid, planLabels(m), ("synth" :> "empty"))

emptyVm_NamePerMigration(m, id, name, uid) ==
    Obj("VirtualMachine", name \o <<"-", m>>, uid, vmLabels(m, id), ("synth" :> "empty"))

emptyVm(m, id, name, uid) ==
    Obj("VirtualMachine", name, uid, vmLabels(m, id), ("synth" :> "empty"))

vmPreference(m, id, name, uid) ==
    [emptyVm(m, id, name, uid) EXCEPT !.data = ("synth" :> "preference")]

vmTemplate(m, id, name, uid) ==
    Obj("VirtualMachine", name, uid,
        vmLabels(m, id) @@ ("vm.kubevirt.io/template" :> "t1"),
        ("synth" :> "template"))

\* A build that goes to the template before the preference.
virtualMachine_TemplateFirst(m, id, name, uid, prefOK, tmplOK) ==
    IF tmplOK THEN vmTemplate(m, id, name, uid)
    ELSE IF prefOK THEN vmPreference(m, id, name, uid)
    ELSE emptyVm(m, id, name, uid)

\* virtualMachine: preference first, then template, then the empty definition.
virtualMachine(m, id, name, uid, prefOK, tmplOK) ==
    IF prefOK THEN vmPreference(m, id, name, uid)
    ELSE IF tmplOK THEN vmTemplate(m, id, name, uid)
    ELSE emptyVm(m, id, name, uid)

\* The strategies virtualMachine calls.
Tried(prefOK, tmplOK) ==
    {"vmPreference"} \cup
        (IF prefOK THEN {} ELSE {"vmTemplate"} \cup (IF tmplOK THEN {} ELSE {"emptyVm"}))

AnnOriginalName == "original-name"
AnnOriginalID == "original-ID"

\* originalName: the name that had to be rewritten, or none.
OriginalName(n) == IF IsDNS1123Label(n) THEN <<>> ELSE n

\* Annotations on every definition.
AddAnnotations_Always(object, originalName, id) ==
    [object EXCEPT !.data = @ @@ (AnnOriginalName :> originalName) @@ (AnnOriginalID :> id)]

\* The annotations of a VM whose name was rewritten.
AddAnnotations(object, originalName, id) ==
    IF Len(originalName) > 0
    THEN [object EXCEPT !.data = @ @@ (AnnOriginalName :> originalName) @@ (AnnOriginalID :> id)]
    ELSE object

\* The display name virtualMachine builds the VM under.
TargetName(n) == IF IsDNS1123Label(n) THEN n ELSE changeVmNameDNS1123(n)

----------------------------------------------------------------------------
(* EnsureVM *)

\* A getPVCs that leaves out the claims some controller already owns.
getPVCs_Unowned(s, m, id) ==
    {o \in s : o.kind = "PersistentVolumeClaim"
               /\ Matches((kMigration :> m) @@ (kVM :> id), o.labels)
               /\ o.owners = {}}

\* getPVCs: the claims of a VM in a migration, in every namespace.
getPVCs(s, m, id) ==
    {o \in s : o.kind = "PersistentVolumeClaim"
               /\ Matches((kMigration :> m) @@ (kVM :> id), o.labels)}

EnsureVM_List(w, id, m) ==
    /\ Begin(w, "EnsureVM", id, m, List(store, "VirtualMachine", vmLabels(m, id)))
    /\ pc' = [pc EXCEPT ![w] = "EnsureVM_create"]
    /\ UNCHANGED <<store, seq, vmStatus, last, dirty, quota, provider, pod, step>>

\* EnsureVM written the way an ensure handler that converges its object would
\* be: the VirtualMachine that is found is updated to the definition built now.
EnsureVM_Create_Resync(w) ==
    LET c == call[w]
        name == TargetName(vmStatus[c.vm].Name)
    IN
    /\ pc[w] = "EnsureVM_create"
    /\ UNCHANGED <<quota, provider, pod, step, last>>
    /\ vmStatus' = [vmStatus EXCEPT ![c.vm].Name = name]
    /\ \E prefOK \in BOOLEAN, tmplOK \in BOOLEAN :
         LET found == IF c.items = {} THEN {} ELSE {CHOOSE o \in c.items : TRUE}
             uid == IF found = {} THEN seq + 1 ELSE (CHOOSE o \in found : TRUE).uid
             vm == AddAnnotations(
                      virtualMachine(c.mig, c.vm, name, uid, prefOK, tmplOK),
                      OriginalName(vmStatus[c.vm].Name), c.vm)
         IN
         /\ found = {} => seq < quota /\ ~Exists(store, vm.kind, vm.name)
         /\ seq' = IF found = {} THEN seq + 1 ELSE seq
         /\ store' = (store \ found) \cup {vm}
         /\ call' = Wrote(w, [(IF found = {} THEN Made(c, vm)
                               ELSE Logged(c, "Update", "VirtualMachine"))
                                 EXCEPT !.obj = {vm}, !.items = {}])
         /\ pc' = [pc EXCEPT ![w] = "EnsureVM_pvcs"]
         /\ dirty' = Recording

EnsureVM_Create(w) ==
    LET c == call[w]
        name == TargetName(vmStatus[c.vm].Name)
    IN
    /\ pc[w] = "EnsureVM_create"
    /\ UNCHANGED <<quota, provider, pod, step>>
    /\ IF c.items = {}
       THEN /\ vmStatus' = [vmStatus EXCEPT ![c.vm].Name = name]
            /\ \E prefOK \in BOOLEAN, tmplOK \in BOOLEAN, builderOK \in BOOLEAN :
                 LET vm == AddAnnotations(
                              virtualMachine(c.mig, c.vm, name, seq + 1, prefOK, tmplOK),
                              OriginalName(vmStatus[c.vm].Name), c.vm)
                 IN
                 IF ~builderOK
                 THEN /\ Return(w, c, "BuilderError")
                      /\ UNCHANGED <<store, seq>>
                 ELSE IF Exists(store, vm.kind, vm.name)
                 THEN /\ Return(w, Logged(c, "Create", "VirtualMachine"), "AlreadyExists")
                      /\ UNCHANGED <<store, seq>>
                 ELSE /\ seq < quota
                      /\ store' = store \cup {vm}
                      /\ seq' = seq + 1
                      /\ call' = Wrote(w, [Made(c, vm) EXCEPT !.obj = {vm}, !.items = {}])
                      /\ pc' = [pc EXCEPT ![w] = "EnsureVM_pvcs"]
                      /\ dirty' = Recording
                      /\ UNCHANGED last
       ELSE /\ \E o \in c.items :
                 call' = [call EXCEPT ![w] = [c EXCEPT !.obj = {o}, !.items = {}]]
            /\ pc' = [pc EXCEPT ![w] = "EnsureVM_pvcs"]
            /\ UNCHANGED <<store, seq, vmStatus, last, dirty>>

EnsureVM_PVCs(w) ==
    /\ pc[w] = "EnsureVM_pvcs"
    /\ call' = [call EXCEPT ![w].items = getPVCs(store, call[w].mig, call[w].vm)]
    /\ pc' = [pc EXCEPT ![w] = "EnsureVM_patch"]
    /\ UNCHANGED <<store, seq, vmStatus, last, dirty, quota, provider, pod, step>>

\* The merge patch of one claim: its owner references become the VM alone.
EnsureVM_Patch(w) ==
    LET c == call[w] IN
    /\ pc[w] = "EnsureVM_patch"
    /\ UNCHANGED <<seq, vmStatus, quota, provider, pod, step>>
    /\ IF c.items = {}
       THEN /\ Return(w, c, "nil")
            /\ UNCHANGED store
       ELSE \E p \in c.items :
              LET cur == {o \in store : o.kind = p.kind /\ o.ns = p.ns /\ o.name = p.name}
                  vm == CHOOSE v \in c.obj : TRUE
                  c2 == Logged(c, "Patch", "PersistentVolumeClaim")
              IN
              IF cur = {}
              THEN /\ Return(w, c2, "NotFound")
                          /\ UNCHANGED store
              ELSE /\ store' = (store \ cur)
                                 \cup {[o EXCEPT !.owners = {OwnerRef(vm)}] : o \in cur}
                   /\ call' = Wrote(w, [c2 EXCEPT !.items = @ \ {p}])
                   /\ dirty' = Recording
                   /\ UNCHANGED <<pc, last>>

----------------------------------------------------------------------------
(* DeleteVM *)

DeleteVM_List(w, id, m) ==
    /\ Begin(w, "DeleteVM", id, m,
             List(store, "VirtualMachine", vmAllButMigrationLabels(m, id)))
    /\ pc' = [pc EXCEPT ![w] = "DeleteVM_delete"]
    /\ UNCHANGED <<store, seq, vmStatus, last, dirty, quota, provider, pod, step>>

\* Delete with foreground propagation: the object stays, marked as being
\* deleted, until the garbage collector has removed its dependents.
DeleteVM_Delete(w) ==
    LET c == call[w] IN
    /\ pc[w] = "DeleteVM_delete"
    /\ UNCHANGED <<seq, vmStatus, quota, provider, pod, step>>
    /\ IF c.items = {}
       THEN /\ Return(w, c, "nil")
            /\ UNCHANGED store
       ELSE \E o \in c.items :
              LET cur == {x \in store : x.kind = o.kind /\ x.ns = o.ns /\ x.name = o.name}
                  c2 == [Logged(c, "Delete", "VirtualMachine") EXCEPT !.items = @ \ {o}]
              IN
              IF cur = {}
              THEN /\ call' = [call EXCEPT ![w] = c2]
                   /\ UNCHANGED <<store, pc, last, dirty>>
              ELSE /\ store' = (store \ cur) \cup {[x EXCEPT !.deleting = TRUE] : x \in cur}
                   /\ call' = Wrote(w, c2)
                   /\ dirty' = Recording
                   /\ UNCHANGED <<pc, last>>

----------------------------------------------------------------------------
(* The cluster's own controllers *)

Disturbed ==
    [x \in Passes |-> IF Recording /\ pc[x] # "idle"
                      THEN [call[x] EXCEPT !.clean = FALSE] ELSE call[x]]

\* A volume controller creates a claim for a VM: an import claim is owned by
\* its DataVolume, a populator claim has no owner.
VolumeControllerCreatesPVC(id, m) ==
    /\ seq < quota
    /\ Cardinality(getPVCs(store, m, id)) < MaxPVCs
    /\ \E owned \in BOOLEAN :
         LET name == Generated(getGeneratedName(id), seq + 1)
             pvc == Obj("PersistentVolumeClaim", name, seq + 1, vmLabels(m, id), NoData)
         IN store' = store \cup
              {[pvc EXCEPT !.owners =
                  IF owned THEN {[kind |-> "DataVolume", name |-> name, uid |-> 0]} ELSE {}]}
    /\ seq' = seq + 1
    /\ call' = Disturbed
    /\ dirty' = Recording
    /\ UNCHANGED <<vmStatus, pc, last, quota, provider, pod, step>>

Solid(s, ref) == \E o \in s : o.kind = ref.kind /\ o.uid = ref.uid /\ ~o.deleting

\* The garbage collector finishes a foreground deletion: dependents first
\* (a dependent that has another live owner only loses the reference), then
\* the owner.
GarbageCollect ==
    /\ \E v \in store :
         /\ v.deleting
         /\ LET deps == {o \in store : OwnerRef(v) \in o.owners} IN
            IF deps = {}
            THEN store' = store \ {v}
            ELSE \E d \in deps :
                   IF \E r \in d.owners : Solid(store, r)
                   THEN store' = (store \ {d}) \cup {[d EXCEPT !.owners = @ \ {OwnerRef(v)}]}
                   ELSE store' = store \ {d}
    /\ call' = Disturbed
    /\ dirty' = Recording
    /\ UNCHANGED <<seq, vmStatus, pc, last, quota, provider, pod, step>>

----------------------------------------------------------------------------
(* Specification of the VM handlers: EnsureVM and DeleteVM of any VM under
   any migration of the plan, run by passes that interleave between store
   calls, beside the cluster's volume controller and garbage collector. *)

\* The conversion pod before it is scheduled, and the step before it is run.
NoPod == [PodIP |-> "", server |-> "down", ovf |-> ""]

NoStep == [Completed |-> FALSE, Progress |-> [Completed |-> 0, Total |-> 1]]

InitCommon ==
    /\ store = {}
    /\ seq = 0
    /\ vmStatus = [id \in VMIDs |-> [Name |-> SourceName(id), Firmware |-> ""]]
    /\ call = [w \in DOMAIN pc |-> NoCall]
    /\ dirty = FALSE
    /\ provider = "cred1"
    /\ pod = NoPod
    /\ step = NoStep

InitVM ==
    /\ pc = [w \in {1} |-> "idle"]
    /\ last = NoLast
    /\ quota = MaxSeq
    /\ InitCommon

VMHandlers(ids, migs) ==
    \/ \E w \in Passes, id \in ids, m \in migs : EnsureVM_List(w, id, m)
    \/ \E w \in Passes : EnsureVM_Create(w)
    \/ \E w \in Passes : EnsureVM_PVCs(w)
    \/ \E w \in Passes : EnsureVM_Patch(w)
    \/ \E w \in Passes, id \in ids, m \in migs : DeleteVM_List(w, id, m)
    \/ \E w \in Passes : DeleteVM_Delete(w)
    \/ \E id \in ids, m \in migs : VolumeControllerCreatesPVC(id, m)
    \/ GarbageCollect

NextVM == VMHandlers(VMIDs, {"m1"})

SpecVM == InitVM /\ [][NextVM]_vars

(* The same handlers for one VM, run by two passes under the first and a
   retried migration of the plan. *)

InitRetry ==
    /\ pc = [w \in {1, 2} |-> "idle"]
    /\ last = NotRecording
    /\ quota = MaxSeq
    /\ InitCommon

NextRetry == VMHandlers({"a"}, Migrations)

SpecRetry == InitRetry /\ [][NextRetry]_vars

(* The same handlers for one VM, run by one pass under the first and then a
   retried migration of the plan, each call recorded when it returns. *)

InitRemigrate ==
    /\ pc = [w \in {1} |-> "idle"]
    /\ last = NoLast
    /\ quota = MaxSeq
    /\ InitCommon

NextRemigrate == VMHandlers({"a"}, Migrations)

SpecRemigrate == InitRemigrate /\ [][NextRemigrate]_vars

----------------------------------------------------------------------------
(* Credential Secret *)

Credentials == {"cred1", "cred2"}

\* Builder.Secret: the transfer credentials the provider adapter derives
\* from the provider's own.
BuilderSecret(cred) == IF cred = "cred1" THEN "key1" ELSE "key2"

\* secretDataSetterForCDI: the Builder fills the Secret's StringData.
secretDataSetterForCDI(cred) ==
    [Data |-> [password |-> "", secretKey |-> ""],
     StringData |-> [password |-> "", secretKey |-> BuilderSecret(cred)]]

\* copyDataFromProviderSecret: secret.Data = r.Source.Secret.Data.
copyDataFromProviderSecret(cred) ==
    [Data |-> [password |-> cred, secretKey |-> ""],
     StringData |-> [password |-> "", secretKey |-> ""]]

\* The setter each caller of ensureSecret passes.
SetterOf(op, cred) ==
    IF op = "PopulatorVolumes"
    THEN copyDataFromProviderSecret(cred)
    ELSE secretDataSetterForCDI(cred)

\* What the API server keeps of a written Secret: Data, with the entries of
\* StringData written over it.
StoredSecretData(data, stringData) ==
    [k \in DOMAIN data |-> IF stringData[k] # "" THEN stringData[k] ELSE data[k]]

\* A Secret that carries the plan's labels only.
secret_PlanLabels(m, id, uid, set) ==
    Obj("Secret", Generated(getGeneratedName(id), uid), uid, planLabels(m),
        StoredSecretData(set.Data, set.StringData))

\* secret: the Secret built for a VM, as the server stores it on Create.
secret(m, id, uid, set) ==
    Obj("Secret", Generated(getGeneratedName(id), uid), uid, vmLabels(m, id),
        StoredSecretData(set.Data, set.StringData))

\* The update branch of ensureSecret: the listed Secret with the StringData of
\* the newly built one.
UpdatedSecretData(listed, set) == StoredSecretData(listed.data, set.StringData)

\* len(list.Items) > 0
Found(items) == items # {}

SecretCallers == {"DataVolumes", "PopulatorVolumes", "EnsureGuestConversionPod"}

\* DataVolumes, PopulatorVolumes and EnsureGuestConversionPod begin with
\* ensureSecret: validate the VM reference, build the Secret, list.
ensureSecret_List(w, op, id, m) ==
    /\ pc[w] = "idle"
    /\ UNCHANGED <<store, seq, vmStatus, quota, provider, pod, step>>
    /\ \E outcome \in {"nil", "InventoryError", "BuilderError"} :
         LET c == [NewCall(op, id, m, List(store, "Secret", vmLabels(m, id)))
                     EXCEPT !.secretData = SetterOf(op, provider)]
         IN
         /\ outcome = "BuilderError" => op # "PopulatorVolumes"
         /\ IF outcome # "nil"
            THEN Return(w, [c EXCEPT !.items = {}, !.secretData = NoSecretData], outcome)
            ELSE /\ call' = [call EXCEPT ![w] = c]
                 /\ pc' = [pc EXCEPT ![w] = "ensureSecret"]
                 /\ UNCHANGED <<last, dirty>>

ensureSecret_Apply(w) ==
    LET c == call[w]
        next == IF c.op = "PopulatorVolumes" THEN "PopulatorVolumes" ELSE "ensureConfigMap"
    IN
    /\ pc[w] = "ensureSecret"
    /\ UNCHANGED <<vmStatus, quota, provider, pod, step>>
    /\ IF Found(c.items)
       THEN \E listed \in c.items :
              LET cur == {o \in store : o.kind = listed.kind /\ o.ns = listed.ns
                                        /\ o.name = listed.name}
                  c2 == Logged(c, "Update", "Secret")
              IN
              IF cur = {}
              THEN /\ Return(w, c2, "NotFound")
                   /\ UNCHANGED <<store, seq>>
              ELSE /\ store' = (store \ cur) \cup
                         {[o EXCEPT !.data = UpdatedSecretData(listed, c.secretData)] : o \in cur}
                   /\ call' = Wrote(w, [c2 EXCEPT !.obj = cur, !.items = {}])
                   /\ pc' = [pc EXCEPT ![w] = next]
                   /\ dirty' = Recording
                   /\ UNCHANGED <<seq, last>>
       ELSE LET new == secret(c.mig, c.vm, seq + 1, c.secretData) IN
            /\ seq < quota
            /\ store' = store \cup {new}
            /\ seq' = seq + 1
            /\ call' = Wrote(w, [Made(c, new) EXCEPT !.obj = {new}, !.items = {}])
            /\ pc' = [pc EXCEPT ![w] = next]
            /\ dirty' = Recording
            /\ UNCHANGED last

\* PopulatorVolumes after ensureSecret: createLunDisks (the provider has no LUN
\* disks) and Builder.PopulatorVolumes.
PopulatorVolumes_Build(w) ==
    /\ pc[w] = "PopulatorVolumes"
    /\ \E err \in {"nil", "BuilderError"} : Return(w, call[w], err)
    /\ UNCHANGED <<store, seq, vmStatus, quota, provider, pod, step>>

----------------------------------------------------------------------------
(* Config payload *)

\* configMap: the ConfigMap built for a VM.
configMap(m, id, uid) ==
    Obj("ConfigMap", Generated(getGeneratedName(id), uid), uid, vmLabels(m, id),
        [inputxml |-> "", provider |-> "metadata"])

\* The numbers of disks the VM definition and its claims can describe.
DiskCounts == {1, 2}

\* libvirtDomain, marshalled: the domain named after the VM, with one disk
\* per volume of the VM definition that has a claim.
libvirtDomain(id, disks) ==
    IF id = "a"
    THEN IF disks = 1 THEN "<domain>a<disk/></domain>"
                      ELSE "<domain>a<disk/><disk/></domain>"
    ELSE IF disks = 1 THEN "<domain>b<disk/></domain>"
                      ELSE "<domain>b<disk/><disk/></domain>"

\* An ensureConfigMap whose caller goes on when the VM reference cannot be
\* resolved.
ensureConfigMap_List_GoOn(w) ==
    LET c == call[w] IN
    /\ pc[w] = "ensureConfigMap"
    /\ UNCHANGED <<store, seq, vmStatus, quota, provider, pod, step, last, dirty>>
    /\ \E outcome \in {"nil", "InventoryError"} :
         IF outcome # "nil"
         THEN /\ call' = call
              /\ pc' = [pc EXCEPT ![w] = IF c.op = "DataVolumes" THEN "dataVolumes"
                                         ELSE "ensureLibvirtConfigMap"]
         ELSE /\ call' = [call EXCEPT ![w].items = List(store, "ConfigMap", vmLabels(c.mig, c.vm))]
              /\ pc' = [pc EXCEPT ![w] = "ensureConfigMap_create"]

ensureConfigMap_List(w) ==
    LET c == call[w] IN
    /\ pc[w] = "ensureConfigMap"
    /\ UNCHANGED <<store, seq, vmStatus, quota, provider, pod, step>>
    /\ \E outcome \in {"nil", "InventoryError"} :
         IF outcome # "nil"
         THEN Return(w, c, outcome)
         ELSE /\ call' = [call EXCEPT ![w].items = List(store, "ConfigMap", vmLabels(c.mig, c.vm))]
              /\ pc' = [pc EXCEPT ![w] = "ensureConfigMap_create"]
              /\ UNCHANGED <<last, dirty>>

ensureConfigMap_Create(w) ==
    LET c == call[w]
        next == IF c.op = "DataVolumes" THEN "dataVolumes" ELSE "ensureLibvirtConfigMap"
    IN
    /\ pc[w] = "ensureConfigMap_create"
    /\ UNCHANGED <<vmStatus, quota, provider, pod, step>>
    /\ IF Found(c.items)
       THEN /\ \E o \in c.items :
                 call' = [call EXCEPT ![w] = [c EXCEPT !.obj = {o}, !.items = {}]]
            /\ pc' = [pc EXCEPT ![w] = next]
            /\ UNCHANGED <<store, seq, last, dirty>>
       ELSE \E outcome \in {"nil", "BuilderError"} :
              LET new == configMap(c.mig, c.vm, seq + 1) IN
              IF outcome # "nil"
              THEN /\ Return(w, c, outcome)
                   /\ UNCHANGED <<store, seq>>
              ELSE /\ seq < quota
                   /\ store' = store \cup {new}
                   /\ seq' = seq + 1
                   /\ call' = Wrote(w, [Made(c, new) EXCEPT !.obj = {new}, !.items = {}])
                   /\ pc' = [pc EXCEPT ![w] = next]
                   /\ dirty' = Recording
                   /\ UNCHANGED last

\* A dataVolumes that does not ask the inventory for the VM.
dataVolumes_Build_Unvalidated(w) ==
    /\ pc[w] = "dataVolumes"
    /\ \E err \in {"nil", "BuilderError"} : Return(w, call[w], err)
    /\ UNCHANGED <<store, seq, vmStatus, quota, provider, pod, step>>

\* dataVolumes: validate the VM reference, Builder.DataVolumes, createLunDisks
\* (the provider has no LUN disks).
dataVolumes_Build(w) ==
    /\ pc[w] = "dataVolumes"
    /\ \E err \in {"nil", "InventoryError", "BuilderError"} : Return(w, call[w], err)
    /\ UNCHANGED <<store, seq, vmStatus, quota, provider, pod, step>>

\* An ensureLibvirtConfigMap that stores the domain XML as the only entry.
ensureLibvirtConfigMap_Update_Replace(w) ==
    LET c == call[w]
        cm == CHOOSE o \in c.obj : TRUE
        cur == {o \in store : o.kind = cm.kind /\ o.ns = cm.ns /\ o.name = cm.name}
        c2 == Logged(c, "Update", "ConfigMap")
    IN
    /\ pc[w] = "ensureLibvirtConfigMap"
    /\ UNCHANGED <<seq, vmStatus, quota, provider, pod, step>>
    /\ IF cur = {}
       THEN /\ Return(w, c2, "NotFound")
            /\ UNCHANGED store
       ELSE /\ \E disks \in DiskCounts :
                  /\ store' = (store \ cur) \cup
                        {[o EXCEPT !.data = [inputxml |-> libvirtDomain(c.vm, disks)]] :
                         o \in cur}
                  /\ call' = Wrote(w, [c2 EXCEPT !.at = disks])
            /\ pc' = [pc EXCEPT ![w] = "guestConversionPod"]
            /\ dirty' = Recording
            /\ UNCHANGED last

\* ensureLibvirtConfigMap: write the domain XML into the ConfigMap.
ensureLibvirtConfigMap_Update(w) ==
    LET c == call[w]
        cm == CHOOSE o \in c.obj : TRUE
        cur == {o \in store : o.kind = cm.kind /\ o.ns = cm.ns /\ o.name = cm.name}
        c2 == Logged(c, "Update", "ConfigMap")
    IN
    /\ pc[w] = "ensureLibvirtConfigMap"
    /\ UNCHANGED <<seq, vmStatus, quota, provider, pod, step>>
    /\ IF cur = {}
       THEN /\ Return(w, c2, "NotFound")
            /\ UNCHANGED store
       ELSE /\ \E disks \in DiskCounts :
                  /\ store' = (store \ cur) \cup
                        {[o EXCEPT !.data = [cm.data EXCEPT
                                      !.inputxml = libvirtDomain(c.vm, disks)]] :
                         o \in cur}
                  /\ call' = Wrote(w, [c2 EXCEPT !.at = disks])
            /\ pc' = [pc EXCEPT ![w] = "guestConversionPod"]
            /\ dirty' = Recording
            /\ UNCHANGED last

----------------------------------------------------------------------------
(* Guest conversion pod *)

\* A pod that carries the consumer role instead of the conversion role.
guestConversionPod_ConsumerRole(m, id, uid) ==
    Obj("Pod", Generated(getGeneratedName(id), uid), uid, consumerLabels(m, id, FALSE),
        [PodIP |-> ""])

\* guestConversionPod: the virt-v2v pod built for a VM.
guestConversionPod(m, id, uid) ==
    Obj("Pod", Generated(getGeneratedName(id), uid), uid, conversionLabels(m, id, FALSE),
        [PodIP |-> ""])

\* Build the pod (for an OVA source, once podVolumeMounts has created its
\* volume and claim), then list the pods of the VM's plan and vmID with the
\* conversion role.
EnsureGuestConversionPod_List(w) ==
    LET c == call[w] IN
    /\ pc[w] \in {"guestConversionPod", "guestConversionPod_ova"}
    /\ UNCHANGED <<store, seq, vmStatus, quota, provider, pod, step>>
    /\ \E outcome \in {"nil", "BuilderError"} :
         IF outcome # "nil"
         THEN Return(w, c, outcome)
         ELSE /\ call' = [call EXCEPT ![w].items =
                             List(store, "Pod", conversionLabels(c.mig, c.vm, TRUE))]
              /\ pc' = [pc EXCEPT ![w] = "EnsureGuestConversionPod_create"]
              /\ UNCHANGED <<last, dirty>>

EnsureGuestConversionPod_Create(w) ==
    LET c == call[w]
        new == guestConversionPod(c.mig, c.vm, seq + 1)
    IN
    /\ pc[w] = "EnsureGuestConversionPod_create"
    /\ UNCHANGED <<vmStatus, quota, provider, pod, step>>
    /\ IF Found(c.items)
       THEN /\ Return(w, c, "nil")
            /\ UNCHANGED <<store, seq>>
       ELSE /\ seq < quota
            /\ store' = store \cup {new}
            /\ seq' = seq + 1
            /\ Return(w, Made(c, new), "nil")

\* The source provider's credentials are rotated.
RotateCredentials ==
    /\ provider' = CHOOSE x \in Credentials : x # provider
    /\ UNCHANGED <<store, seq, vmStatus, pc, call, last, dirty, quota, pod, step>>

----------------------------------------------------------------------------
(* Specification of the handlers that ensure the Secret, the config payload
   and the conversion pod, run one after the other by one pass. *)

MaxSecretSeq == 3    \* objects created in one behaviour of SpecSecret

InitSecret ==
    /\ pc = [w \in {1} |-> "idle"]
    /\ last = NotRecording
    /\ quota = MaxSecretSeq
    /\ InitCommon

SecretHandlers(ids, migs) ==
    \/ \E w \in Passes, op \in SecretCallers, id \in ids, m \in migs :
          ensureSecret_List(w, op, id, m)
    \/ \E w \in Passes : ensureSecret_Apply(w)
    \/ \E w \in Passes : PopulatorVolumes_Build(w)
    \/ \E w \in Passes : ensureConfigMap_List(w)
    \/ \E w \in Passes : ensureConfigMap_Create(w)
    \/ \E w \in Passes : dataVolumes_Build(w)
    \/ \E w \in Passes : ensureLibvirtConfigMap_Update(w)
    \/ \E w \in Passes : EnsureGuestConversionPod_List(w)
    \/ \E w \in Passes : EnsureGuestConversionPod_Create(w)
    \/ RotateCredentials

NextSecret == SecretHandlers(VMIDs, {"m1"})

SpecSecret == InitSecret /\ [][NextSecret]_vars

(* The same handlers for one VM, each call recorded when it returns. *)

InitInventory ==
    /\ pc = [w \in {1} |-> "idle"]
    /\ last = NoLast
    /\ quota = MaxSecretSeq
    /\ InitCommon

NextInventory == SecretHandlers({"a"}, {"m1"})

SpecInventory == InitInventory /\ [][NextInventory]_vars


(* EnsureGuestConversionPod for one VM, run by two passes whose steps
   interleave. *)

MaxRaceSeq == 4    \* objects created in one behaviour of SpecRace

InitRace ==
    /\ pc = [w \in {1, 2} |-> "idle"]
    /\ last = NotRecording
    /\ quota = MaxRaceSeq
    /\ InitCommon

NextRace ==
    \/ \E w \in Passes : ensureSecret_List(w, "EnsureGuestConversionPod", "a", "m1")
    \/ \E w \in Passes : ensureSecret_Apply(w)
    \/ \E w \in Passes : ensureConfigMap_List(w)
    \/ \E w \in Passes : ensureConfigMap_Create(w)
    \/ \E w \in Passes : ensureLibvirtConfigMap_Update(w)
    \/ \E w \in Passes : EnsureGuestConversionPod_List(w)
    \/ \E w \in Passes : EnsureGuestConversionPod_Create(w)

SpecRace == InitRace /\ [][NextRace]_vars


(* EnsureGuestConversionPod and GetGuestConversionPod for one VM, under one
   migration after the other. *)

\* GetGuestConversionPod: the first conversion pod listed for the VM in the
\* migration, or none; the call's req holds the name of the pod returned.
GetGuestConversionPod(w, id, m) ==
    LET items == List(store, "Pod", conversionLabels(m, id, FALSE))
        c == NewCall("GetGuestConversionPod", id, m, items)
    IN
    /\ pc[w] = "idle"
    /\ UNCHANGED <<store, seq, vmStatus, quota, provider, pod, step>>
    /\ IF items = {}
       THEN Return(w, [c EXCEPT !.items = {}], "nil")
       ELSE \E first \in items :
              Return(w, [c EXCEPT !.items = {}, !.req = <<first.name>>], "nil")

MaxPodSeq == 5    \* objects created in one behaviour of SpecGetPod

InitGetPod ==
    /\ pc = [w \in {1} |-> "idle"]
    /\ last = NoLast
    /\ quota = MaxPodSeq
    /\ InitCommon

NextGetPod ==
    \/ \E w \in Passes, m \in Migrations :
          ensureSecret_List(w, "EnsureGuestConversionPod", "a", m)
    \/ \E w \in Passes : ensureSecret_Apply(w)
    \/ \E w \in Passes : ensureConfigMap_List(w)
    \/ \E w \in Passes : ensureConfigMap_Create(w)
    \/ \E w \in Passes : ensureLibvirtConfigMap_Update(w)
    \/ \E w \in Passes : EnsureGuestConversionPod_List(w)
    \/ \E w \in Passes : EnsureGuestConversionPod_Create(w)
    \/ \E w \in Passes, m \in Migrations : GetGuestConversionPod(w, "a", m)

SpecGetPod == InitGetPod /\ [][NextGetPod]_vars


(* The volumes of the conversion pod for an OVA source *)

ProviderName == "ova"
OvaPVLabel == "nfs-pv"
OvaPVCLabel == "nfs-pvc"

getEntityPrefixName(resourceType) ==
    <<"ova-store-", resourceType, "-", ProviderName, "-", PlanName, "-">>

\* The labels CreatePvForNfs and CreatePvcForNfs put on what they create.
nfsPvLabels(m) ==
    ("provider" :> ProviderName) @@ ("app" :> "forklift") @@ (kMigration :> m)
        @@ (kPlan :> PlanUID) @@ ("ova" :> OvaPVLabel)

nfsPvcLabels(m, id) ==
    ("provider" :> ProviderName) @@ ("app" :> "forklift") @@ (kMigration :> m)
        @@ (kPlan :> PlanUID) @@ ("ova" :> OvaPVCLabel) @@ (kVM :> id)

\* podVolumeMounts for an OVA source, first half: CreatePvForNfs creates a
\* PersistentVolume (cluster-scoped) under a generated name.
CreatePvForNfs(w) ==
    LET c == call[w]
        pv == [Obj("PersistentVolume", Generated(getEntityPrefixName("pv"), seq + 1),
                   seq + 1, nfsPvLabels(c.mig), NoData) EXCEPT !.ns = ""]
    IN
    /\ pc[w] = "guestConversionPod"
    /\ UNCHANGED <<vmStatus, quota, provider, pod, step>>
    /\ \E outcome \in {"nil", "ServerError"} :
         IF outcome # "nil"
         THEN /\ Return(w, Logged(c, "Create", "PersistentVolume"), outcome)
              /\ UNCHANGED <<store, seq>>
         ELSE /\ seq < quota
              /\ store' = store \cup {pv}
              /\ seq' = seq + 1
              /\ call' = Wrote(w, Made(c, pv))
              /\ pc' = [pc EXCEPT ![w] = "CreatePvcForNfs"]
              /\ dirty' = Recording
              /\ UNCHANGED last

\* podVolumeMounts for an OVA source, second half: CreatePvcForNfs creates a
\* claim under a generated name.
CreatePvcForNfs(w) ==
    LET c == call[w]
        pvc == Obj("PersistentVolumeClaim", Generated(getEntityPrefixName("pvc"), seq + 1),
                   seq + 1, nfsPvcLabels(c.mig, c.vm),
                   [phase |-> "Pending", after |-> TRUE])
    IN
    /\ pc[w] = "CreatePvcForNfs"
    /\ UNCHANGED <<vmStatus, quota, provider, pod, step>>
    /\ \E outcome \in {"nil", "ServerError"} :
         IF outcome # "nil"
         THEN /\ Return(w, Logged(c, "Create", "PersistentVolumeClaim"), outcome)
              /\ UNCHANGED <<store, seq>>
         ELSE /\ seq < quota
              /\ store' = store \cup {pvc}
              /\ seq' = seq + 1
              /\ call' = Wrote(w, Made(c, pvc))
              /\ pc' = [pc EXCEPT ![w] = "guestConversionPod_ova"]
              /\ dirty' = Recording
              /\ UNCHANGED last

(* EnsureGuestConversionPod for one VM of an OVA source, each call recorded
   when it returns. *)

MaxOvaSeq == 7    \* objects created in one behaviour of SpecOva

InitOva ==
    /\ pc = [w \in {1} |-> "idle"]
    /\ last = NoLast
    /\ quota = MaxOvaSeq
    /\ InitCommon

NextOva ==
    \/ \E w \in Passes : ensureSecret_List(w, "EnsureGuestConversionPod", "a", "m1")
    \/ \E w \in Passes : ensureSecret_Apply(w)
    \/ \E w \in Passes : ensureConfigMap_List(w)
    \/ \E w \in Passes : ensureConfigMap_Create(w)
    \/ \E w \in Passes : ensureLibvirtConfigMap_Update(w)
    \/ \E w \in Passes : CreatePvForNfs(w)
    \/ \E w \in Passes : CreatePvcForNfs(w)
    \/ \E w \in Passes : pc[w] = "guestConversionPod_ova" /\ EnsureGuestConversionPod_List(w)
    \/ \E w \in Passes : EnsureGuestConversionPod_Create(w)

SpecOva == InitOva /\ [][NextOva]_vars


(* The status of the claim of the OVA store *)

\* pvc.Status.Phase; the last stands for a phase the switch does not name.
Phases == {"Pending", "Bound", "Lost", ""}

\* The orders in which the server may list a set of objects.
Orders(S) ==
    {f \in [1..Cardinality(S) -> S] : \A i, j \in DOMAIN f : f[i] = f[j] => i = j}

\* A claim of the OVA store of the VM appears, as CreatePvcForNfs makes it; it
\* was created after the migration, or in the very second of its creation.
OvaClaimAppears(id, m) ==
    /\ seq < quota
    /\ \E after \in BOOLEAN :
         store' = store \cup
            {Obj("PersistentVolumeClaim", Generated(getEntityPrefixName("pvc"), seq + 1),
                 seq + 1, nfsPvcLabels(m, id), [phase |-> "Pending", after |-> after])}
    /\ seq' = seq + 1
    /\ call' = Disturbed
    /\ dirty' = Recording
    /\ UNCHANGED <<vmStatus, pc, last, quota, provider, pod, step>>

\* The volume controller moves a claim of the OVA store to another phase.
OvaClaimPhase(id, m) ==
    /\ \E p \in List(store, "PersistentVolumeClaim", nfsPvcLabels(m, id)), phase \in Phases :
         /\ phase # p.data.phase
         /\ store' = (store \ {p}) \cup {[p EXCEPT !.data.phase = phase]}
    /\ call' = Disturbed
    /\ dirty' = Recording
    /\ UNCHANGED <<seq, vmStatus, pc, last, quota, provider, pod, step>>

\* EnsureOVAVirtV2VPVCStatus: list the claims of the OVA store of the VM; a
\* failed or empty list ends the call.  The call's req holds the listed claims
\* in the server's order and, on return, the ready flag.
EnsureOVAVirtV2VPVCStatus_List(w, id, m) ==
    LET items == List(store, "PersistentVolumeClaim", nfsPvcLabels(m, id))
        c == NewCall("EnsureOVAVirtV2VPVCStatus", id, m, {})
    IN
    /\ pc[w] = "idle"
    /\ UNCHANGED <<store, seq, vmStatus, quota, provider, pod, step>>
    /\ \E outcome \in {"nil", "ServerError"} :
         IF outcome # "nil" \/ items = {}
         THEN Return(w, [c EXCEPT !.req = <<FALSE>>], outcome)
         ELSE /\ \E order \in Orders(items) :
                   call' = [call EXCEPT ![w] = [c EXCEPT !.req = order]]
              /\ pc' = [pc EXCEPT ![w] = "EnsureOVAVirtV2VPVCStatus"]
              /\ UNCHANGED <<last, dirty>>

\* The claim the loop over several listed claims leaves in pvc.  The loop takes
\* the address of its variable: where each turn has a variable of its own, pvc
\* is the last claim created after the migration; where one variable serves
\* all turns, pvc is whatever the last turn put there, the last claim listed.
SelectedByLoop(items) ==
    LET late == {i \in DOMAIN items : items[i].data.after}
        lastLate == CHOOSE i \in late : \A j \in late : j <= i
    IN IF late = {} THEN {} ELSE {items[lastLate], items[Len(items)]}

\* The choice of the claim to examine.
EnsureOVAVirtV2VPVCStatus_Select(w) ==
    LET c == call[w]
        candidates == IF Len(c.req) > 1 THEN SelectedByLoop(c.req) ELSE {c.req[1]}
    IN
    /\ pc[w] = "EnsureOVAVirtV2VPVCStatus"
    /\ UNCHANGED <<store, seq, vmStatus, quota, provider, pod, step>>
    /\ IF candidates = {}
       THEN Return(w, [c EXCEPT !.req = <<FALSE>>], "nil")
       ELSE /\ \E pvc \in candidates :
                 call' = [call EXCEPT ![w] = [c EXCEPT !.obj = {pvc}]]
            /\ pc' = [pc EXCEPT ![w] = "EnsureOVAVirtV2VPVCStatus_phase"]
            /\ UNCHANGED <<last, dirty>>

\* The switch on the phase of the claim examined.
EnsureOVAVirtV2VPVCStatus_Phase(w) ==
    LET c == call[w]
        pvc == CHOOSE p \in c.obj : TRUE
    IN
    /\ pc[w] = "EnsureOVAVirtV2VPVCStatus_phase"
    /\ UNCHANGED <<store, seq, vmStatus, quota, provider, pod, step>>
    /\ Return(w, [c EXCEPT !.req = <<pvc.data.phase = "Bound">>],
              IF pvc.data.phase = "Lost" THEN "PvcLost" ELSE "nil")

MaxOvaClaims == 2    \* claims of the OVA store in one behaviour of SpecOvaStatus

InitOvaStatus ==
    /\ pc = [w \in {1} |-> "idle"]
    /\ last = NoLast
    /\ quota = MaxOvaClaims
    /\ InitCommon

NextOvaStatus ==
    \/ OvaClaimAppears("a", "m1")
    \/ OvaClaimPhase("a", "m1")
    \/ \E w \in Passes : EnsureOVAVirtV2VPVCStatus_List(w, "a", "m1")
    \/ \E w \in Passes : EnsureOVAVirtV2VPVCStatus_Select(w)
    \/ \E w \in Passes : EnsureOVAVirtV2VPVCStatus_Phase(w)

SpecOvaStatus == InitOvaStatus /\ [][NextOvaStatus]_vars

----------------------------------------------------------------------------
(* DataVolumes *)

MaxDVs == 2       \* volumes requested in one call
MaxDVSeq == 3     \* objects created in one behaviour of SpecDV

\* The backing files of the source disks; the second is a snapshot of the
\* first.
Sources == {"d1.vmdk", "d1-000001.vmdk", "d2.vmdk"}

\* Builder.ResolveDataVolumeIdentifier: the semantic identifier of a volume,
\* the backing file without its snapshot suffix.
ResolveDataVolumeIdentifier(dv) ==
    IF dv.data.source = "d1-000001.vmdk" THEN "d1.vmdk" ELSE dv.data.source

\* dataVolumes: a volume as the Builder makes it from the template, with the
\* VM's labels and a name left to the server to generate.
dataVolume(m, id, source) ==
    Obj("DataVolume", getGeneratedName(id), 0, vmLabels(m, id), [source |-> source])

\* The volume as the server stores it on Create.
CreatedDataVolume(dv, uid) ==
    [dv EXCEPT !.name = Generated(dv.name, uid), !.uid = uid]

\* A check that goes by the volumes' names.
isDataVolumeExistsInList_ByName(dv, dataVolumeList) ==
    \E item \in dataVolumeList : item.name = dv.name

isDataVolumeExistsInList(dv, dataVolumeList) ==
    \E item \in dataVolumeList :
        ResolveDataVolumeIdentifier(dv) = ResolveDataVolumeIdentifier(item)

\* The requests of at most n volumes.
Requests(n) == UNION {[1..k -> Sources] : k \in 1..n}

\* EnsureDataVolumes: list the VM's volumes once.
EnsureDataVolumes_List(w, id, m, sources) ==
    /\ pc[w] = "idle"
    /\ call' = [call EXCEPT ![w] =
                  [NewCall("EnsureDataVolumes", id, m,
                           List(store, "DataVolume", vmLabels(m, id)))
                     EXCEPT !.req = [i \in DOMAIN sources |->
                                        dataVolume(m, id, sources[i])]]]
    /\ pc' = [pc EXCEPT ![w] = "EnsureDataVolumes"]
    /\ UNCHANGED <<store, seq, vmStatus, last, dirty, quota, provider, pod, step>>

\* One turn of the loop over the requested volumes, and the return after the
\* last.
EnsureDataVolumes_Create(w) ==
    LET c == call[w] IN
    /\ pc[w] = "EnsureDataVolumes"
    /\ UNCHANGED <<vmStatus, quota, provider, pod, step>>
    /\ IF c.at > Len(c.req)
       THEN /\ Return(w, c, "nil")
            /\ UNCHANGED <<store, seq>>
       ELSE LET dv == c.req[c.at]
                new == CreatedDataVolume(dv, seq + 1)
            IN
            IF isDataVolumeExistsInList(dv, c.items)
            THEN /\ call' = [call EXCEPT ![w].at = c.at + 1]
                 /\ UNCHANGED <<store, seq, pc, last, dirty>>
            ELSE /\ seq < quota
                 /\ store' = store \cup {new}
                 /\ seq' = seq + 1
                 /\ call' = Wrote(w, [Logged(c, "Create", new.kind)
                                         EXCEPT !.at = c.at + 1,
                                                !.created = @ \cup {c.at},
                                                !.made = @ \cup {new}])
                 /\ dirty' = Recording
                 /\ UNCHANGED <<pc, last>>

InitDV ==
    /\ pc = [w \in {1} |-> "idle"]
    /\ last = NotRecording
    /\ quota = MaxDVSeq
    /\ InitCommon

NextDV ==
    \/ \E w \in Passes, id \in VMIDs, sources \in Requests(MaxDVs) :
          EnsureDataVolumes_List(w, id, "m1", sources)
    \/ \E w \in Passes : EnsureDataVolumes_Create(w)

SpecDV == InitDV /\ [][NextDV]_vars

----------------------------------------------------------------------------
(* Conversion polling *)

MaxTotal == 2     \* the largest Progress.Total of the conversion step

\* The descriptors the conversion pod's server may hold.
Descriptors == {"<ovf firmware=bios>", "<ovf firmware=efi>", "<html>"}

\* ovfparser.GetFirmwareFromConfig: the firmware named by the descriptor, or
\* an error for a body that is no descriptor.
GetFirmwareFromConfig(vmConfigXML) ==
    CASE vmConfigXML = "<ovf firmware=bios>" -> [firmware |-> "bios", err |-> "nil"]
      [] vmConfigXML = "<ovf firmware=efi>" -> [firmware |-> "efi", err |-> "nil"]
      [] OTHER -> [firmware |-> "", err |-> "ParseError"]

\* err.Error(): the text of the errors the HTTP client and the reader return.
ErrorText(err) ==
    CASE err = "ConnectionRefused" ->
            <<"dial tcp", "connect:", "connection refused">>
      [] err = "Timeout" -> <<"dial tcp", "i/o timeout">>
      [] err = "ConnectionReset" -> <<"read:", "connection reset by peer">>
      [] err = "EOF" -> <<"EOF">>
      [] err = "UnexpectedEOF" -> <<"unexpected", "EOF">>
      [] OTHER -> <<err>>

\* strings.Contains on the parts of a text.
Contains(text, substr) == \E i \in DOMAIN text : text[i] = substr

\* Two readings of a failed GET: none is "not ready", every one is.
IsConnectionRefused_Never(err) == FALSE

IsConnectionRefused_Any(err) == TRUE

IsConnectionRefused(err) == Contains(ErrorText(err), "connection refused")

\* A failed POST is never taken for the server's exit.
IsEOF_Never(err) == FALSE

IsEOF(err) == Contains(ErrorText(err), "EOF")

\* What http.Get, io.ReadAll and http.Post can end with.
GetOutcomes == {"200", "ConnectionRefused", "Timeout", "ConnectionReset", "EOF"}

ReadOutcomes == {"ok", "UnexpectedEOF"}

PostOutcomes == {"200", "EOF", "UnexpectedEOF", "Timeout", "ConnectionRefused"}

\* Step.MarkCompleted
MarkCompleted(s) == [s EXCEPT !.Completed = TRUE]

\* The step is marked and its progress is left as it is.
Complete_MarkOnly(s) == MarkCompleted(s)

\* step.MarkCompleted(); step.Progress.Completed = step.Progress.Total
Complete(s) == [MarkCompleted(s) EXCEPT !.Progress.Completed = s.Progress.Total]

\* The migration calls UpdateVmByConvertedConfig with the VM, its conversion
\* pod and the conversion step.
UpdateVmByConvertedConfig_Call(w, id) ==
    /\ Begin(w, "UpdateVmByConvertedConfig", id, "m1", {})
    /\ pc' = [pc EXCEPT ![w] = "UpdateVmByConvertedConfig"]
    /\ UNCHANGED <<store, seq, vmStatus, last, dirty, quota, provider, pod, step>>

\* A pod that is taken to have its address whatever its status says.
HasNoAddress_Never(p) == FALSE

\* pod.Status.PodIP == ""
HasNoAddress(p) == p.PodIP = ""

\* The address check, GET /ovf, reading and parsing the descriptor, and the
\* firmware written to the VM.
UpdateVmByConvertedConfig_Get(w) ==
    LET c == call[w] IN
    /\ pc[w] = "UpdateVmByConvertedConfig"
    /\ UNCHANGED <<store, seq, quota, provider, pod, step>>
    /\ IF HasNoAddress(pod)
       THEN /\ Return(w, c, "nil")
            /\ UNCHANGED vmStatus
       ELSE \E get \in GetOutcomes, read \in ReadOutcomes :
              LET c1 == Logged(c, "GET /ovf", get)
                  c2 == Logged(c1, "ReadAll", read)
                  parsed == GetFirmwareFromConfig(pod.ovf)
                  c3 == Logged(c2, "GetFirmwareFromConfig", parsed.err)
              IN
              /\ get = "200" => pod.server = "up"
              /\ get = "ConnectionRefused" => pod.server # "up"
              /\ get # "200" => read = "ok"
              /\ IF get # "200"
                 THEN /\ Return(w, c1, IF IsConnectionRefused(get) THEN "nil" ELSE get)
                      /\ UNCHANGED vmStatus
                 ELSE IF read # "ok"
                 THEN /\ Return(w, c2, read)
                      /\ UNCHANGED vmStatus
                 ELSE IF parsed.err # "nil"
                 THEN /\ Return(w, c3, parsed.err)
                      /\ UNCHANGED vmStatus
                 ELSE /\ vmStatus' = [vmStatus EXCEPT ![c.vm].Firmware = parsed.firmware]
                      /\ call' = [call EXCEPT ![w] = c3]
                      /\ pc' = [pc EXCEPT ![w] = "shutdown"]
                      /\ UNCHANGED <<last, dirty>>

\* POST /shutdown and the completion of the step.
UpdateVmByConvertedConfig_Shutdown(w) ==
    LET c == call[w] IN
    /\ pc[w] = "shutdown"
    /\ UNCHANGED <<store, seq, vmStatus, quota, provider>>
    /\ \E post \in PostOutcomes, reached \in BOOLEAN :
         /\ reached => pod.server = "up"
         /\ post \in {"200", "EOF", "UnexpectedEOF"} => reached
         /\ post = "ConnectionRefused" => pod.server # "up"
         /\ pod' = IF reached THEN [pod EXCEPT !.server = "gone"] ELSE pod
         /\ step' = Complete(step)
         /\ Return(w, Logged(c, "POST /shutdown", post),
                   IF post = "200" \/ IsEOF(post) THEN "nil" ELSE post)

\* The pod is scheduled and gets its address.
PodGetsAddress ==
    /\ pod.PodIP = ""
    /\ pod' = [pod EXCEPT !.PodIP = "10.0.0.1"]
    /\ UNCHANGED <<store, seq, vmStatus, pc, call, last, dirty, quota, provider, step>>

\* virt-v2v has finished and the pod's server listens.
ServerStarts ==
    /\ pod.PodIP # "" /\ pod.server = "down"
    /\ pod' = [pod EXCEPT !.server = "up"]
    /\ UNCHANGED <<store, seq, vmStatus, pc, call, last, dirty, quota, provider, step>>

\* The pod's server ends without a shutdown request.
ServerExits ==
    /\ pod.server = "up"
    /\ pod' = [pod EXCEPT !.server = "gone"]
    /\ UNCHANGED <<store, seq, vmStatus, pc, call, last, dirty, quota, provider, step>>

InitConv ==
    /\ pc = [w \in {1} |-> "idle"]
    /\ last = NoLast
    /\ store = {}
    /\ seq = 0
    /\ vmStatus = [id \in VMIDs |-> [Name |-> SourceName(id), Firmware |-> ""]]
    /\ call = [w \in DOMAIN pc |-> NoCall]
    /\ dirty = FALSE
    /\ quota = 0
    /\ provider = "cred1"
    /\ \E ovf \in Descriptors : pod = [NoPod EXCEPT !.ovf = ovf]
    /\ \E total \in 1..MaxTotal : step = [NoStep EXCEPT !.Progress.Total = total]

NextConv ==
    \/ \E w \in Passes : UpdateVmByConvertedConfig_Call(w, "a")
    \/ \E w \in Passes : UpdateVmByConvertedConfig_Get(w)
    \/ \E w \in Passes : UpdateVmByConvertedConfig_Shutdown(w)
    \/ PodGetsAddress
    \/ ServerStarts
    \/ ServerExits

SpecConv == InitConv /\ [][NextConv]_vars

----------------------------------------------------------------------------
(* Teardown *)

\* What a delete of an object that carries finalizers leaves: the object,
\* marked as being deleted, until its finalizers are gone.
Terminating(o) == "finalizers" \in DOMAIN o.data /\ o.data.finalizers # ""

Stored(s, o) == {x \in s : x.kind = o.kind /\ x.ns = o.ns /\ x.name = o.name}

\* Client.Delete: the error and the store a delete request leaves.  The
\* request fails with NotFound for an object that is gone, and may fail for a
\* reason of the server's.
ClientDelete(s, o, fails) ==
    IF Stored(s, o) = {} THEN [err |-> "NotFound", store |-> s]
    ELSE IF fails THEN [err |-> "ServerError", store |-> s]
    ELSE [err |-> "nil",
          store |-> (s \ Stored(s, o)) \cup
                    {[x EXCEPT !.deleting = TRUE] : x \in {y \in Stored(s, o) : Terminating(y)}}]

\* A test that takes no error for NotFound.
IsNotFound_Never(err) == FALSE

\* k8serr.IsNotFound
IsNotFound(err) == err = "NotFound"

\* DeleteObject: Client.Delete, with NotFound taken for success.
DeleteObject(s, o, fails) ==
    LET r == ClientDelete(s, o, fails) IN
    IF IsNotFound(r.err) THEN [r EXCEPT !.err = "nil"] ELSE r

\* The operations that list one kind by the VM's labels and hand every listed
\* object to DeleteObject, returning at the first error.
LabelledDeletes ==
    {"DeleteSecret", "DeleteConfigMap", "DeleteHookJobs",
     "DeletePVCConsumerPod", "DeleteGuestConversionPod"}

ListedKind(op) ==
    CASE op = "DeleteSecret" -> "Secret"
      [] op = "DeleteConfigMap" -> "ConfigMap"
      [] op \in {"DeleteHookJobs", "DeleteJobs"} -> "Job"
      [] op \in {"DeletePVCConsumerPod", "DeleteGuestConversionPod"} -> "Pod"
      [] op = "DeleteDataVolumes" -> "DataVolume"
      [] op = "DeleteVM" -> "VirtualMachine"
      [] OTHER -> "PersistentVolumeClaim"

ListSelector(op, m, id) ==
    CASE op = "DeletePVCConsumerPod" -> consumerLabels(m, id, TRUE)
      [] op = "DeleteGuestConversionPod" -> conversionLabels(m, id, TRUE)
      [] op = "DeleteDataVolumes" -> vmLabels(m, id)
      [] OTHER -> vmAllButMigrationLabels(m, id)

\* A request may fail while the behaviour has failures left.
MayFail(fails) ==
    /\ fails => quota > 0
    /\ quota' = IF fails THEN quota - 1 ELSE quota

\* DeleteSecret, DeleteConfigMap, DeleteHookJobs, DeletePVCConsumerPod and
\* DeleteGuestConversionPod: list the objects.
DeleteLabelled_List(w, op, id, m) ==
    /\ op \in LabelledDeletes
    /\ Begin(w, op, id, m, List(store, ListedKind(op), ListSelector(op, m, id)))
    /\ pc' = [pc EXCEPT ![w] = "DeleteLabelled_delete"]
    /\ UNCHANGED <<store, seq, vmStatus, last, dirty, quota, provider, pod, step>>

\* One turn of the loop over the listed objects, or the return after it.
DeleteLabelled_Delete(w) ==
    LET c == call[w] IN
    /\ pc[w] = "DeleteLabelled_delete"
    /\ UNCHANGED <<seq, vmStatus, provider, pod, step>>
    /\ IF c.items = {}
       THEN /\ Return(w, c, "nil")
            /\ UNCHANGED <<store, quota>>
       ELSE \E o \in c.items, fails \in BOOLEAN :
              LET r == DeleteObject(store, o, fails)
                  c2 == [Logged(c, "Delete", o.kind) EXCEPT !.items = @ \ {o}]
              IN
              /\ fails => Stored(store, o) # {}
              /\ MayFail(fails)
              /\ store' = r.store
              /\ IF r.err # "nil"
                 THEN Return(w, c2, r.err)
                 ELSE /\ call' = IF r.store # store THEN Wrote(w, c2)
                                 ELSE [call EXCEPT ![w] = c2]
                      /\ dirty' = (dirty \/ (Recording /\ r.store # store))
                      /\ UNCHANGED <<pc, last>>

\* DeleteDataVolumes: list the volumes of the VM in the migration.
DeleteDataVolumes_List(w, id, m) ==
    /\ Begin(w, "DeleteDataVolumes", id, m,
             List(store, "DataVolume", ListSelector("DeleteDataVolumes", m, id)))
    /\ pc' = [pc EXCEPT ![w] = "DeleteDataVolumes_delete"]
    /\ UNCHANGED <<store, seq, vmStatus, last, dirty, quota, provider, pod, step>>

\* One turn of the loop: Client.Delete, and every error is returned.
DeleteDataVolumes_Delete(w) ==
    LET c == call[w] IN
    /\ pc[w] = "DeleteDataVolumes_delete"
    /\ UNCHANGED <<seq, vmStatus, provider, pod, step>>
    /\ IF c.items = {}
       THEN /\ Return(w, c, "nil")
            /\ UNCHANGED <<store, quota>>
       ELSE \E o \in c.items, fails \in BOOLEAN :
              LET r == ClientDelete(store, o, fails)
                  c2 == [Logged(c, "Delete", o.kind) EXCEPT !.items = @ \ {o}]
              IN
              /\ fails => Stored(store, o) # {}
              /\ MayFail(fails)
              /\ store' = r.store
              /\ IF r.err # "nil"
                 THEN Return(w, c2, r.err)
                 ELSE /\ call' = Wrote(w, c2)
                      /\ dirty' = Recording
                      /\ UNCHANGED <<pc, last>>

\* DeleteJobs: list the jobs of the VM.
DeleteJobs_List(w, id, m) ==
    /\ Begin(w, "DeleteJobs", id, m,
             List(store, "Job", ListSelector("DeleteJobs", m, id)))
    /\ pc' = [pc EXCEPT ![w] = "DeleteJobs_delete"]
    /\ UNCHANGED <<store, seq, vmStatus, last, dirty, quota, provider, pod, step>>

\* One turn of the loop over the jobs: a job whose delete fails is passed
\* over, the name of every other job is kept in jobNames (created).
DeleteJobs_Delete(w) ==
    LET c == call[w] IN
    /\ pc[w] = "DeleteJobs_delete"
    /\ UNCHANGED <<seq, vmStatus, provider, pod, step, last>>
    /\ IF c.items = {}
       THEN /\ pc' = [pc EXCEPT ![w] = "DeleteJobs_pods"]
            /\ UNCHANGED <<store, quota, call, dirty>>
       ELSE \E o \in c.items, fails \in BOOLEAN :
              LET r == DeleteObject(store, o, fails)
                  c2 == [Logged(c, "Delete", o.kind) EXCEPT
                            !.items = @ \ {o},
                            !.err = r.err,
                            !.created = IF r.err = "nil" THEN @ \cup {o.name} ELSE @]
              IN
              /\ fails => Stored(store, o) # {}
              /\ MayFail(fails)
              /\ store' = r.store
              /\ call' = IF r.store # store THEN Wrote(w, c2) ELSE [call EXCEPT ![w] = c2]
              /\ dirty' = (dirty \/ (Recording /\ r.store # store))
              /\ UNCHANGED pc

\* The loop over jobNames: list the pods of the next job, delete the listed
\* pods one by one whatever the outcome, and return the last error.
DeleteJobs_Pods(w) ==
    LET c == call[w] IN
    /\ pc[w] = "DeleteJobs_pods"
    /\ UNCHANGED <<seq, vmStatus, provider, pod, step>>
    /\ IF c.items # {}
       THEN \E o \in c.items, fails \in BOOLEAN :
              LET r == DeleteObject(store, o, fails)
                  c2 == [Logged(c, "Delete", o.kind) EXCEPT !.items = @ \ {o}, !.err = r.err]
              IN
              /\ fails => Stored(store, o) # {}
              /\ MayFail(fails)
              /\ store' = r.store
              /\ call' = IF r.store # store THEN Wrote(w, c2) ELSE [call EXCEPT ![w] = c2]
              /\ dirty' = (dirty \/ (Recording /\ r.store # store))
              /\ UNCHANGED <<pc, last>>
       ELSE IF c.created # {}
       THEN \E job \in c.created :
              /\ call' = [call EXCEPT ![w] =
                            [c EXCEPT !.created = @ \ {job},
                                      !.err = "nil",
                                      !.items = List(store, "Pod", ("job-name" :> job))]]
              /\ UNCHANGED <<store, quota, pc, last, dirty>>
       ELSE /\ Return(w, c, c.err)
            /\ UNCHANGED <<store, quota>>

\* fmt.Sprintf("prime-%s", pvc.UID)
PrimeName(pvc) == <<"prime-", ToString(pvc.uid)>>

\* DeletePopulatedPVCs: list the claims of the VM in the migration.
DeletePopulatedPVCs_List(w, id, m) ==
    /\ Begin(w, "DeletePopulatedPVCs", id, m, getPVCs(store, m, id))
    /\ pc' = [pc EXCEPT ![w] = "deleteCorrespondingPrimePVC"]
    /\ UNCHANGED <<store, seq, vmStatus, last, dirty, quota, provider, pod, step>>

\* deleteCorrespondingPrimePVC for the next listed claim (kept in obj): get
\* the prime claim and, when there is one, delete it.
deleteCorrespondingPrimePVC(w) ==
    LET c == call[w] IN
    /\ pc[w] = "deleteCorrespondingPrimePVC"
    /\ UNCHANGED <<seq, vmStatus, provider, pod, step>>
    /\ IF c.items = {}
       THEN /\ Return(w, c, "nil")
            /\ UNCHANGED <<store, quota>>
       ELSE \E pvc \in c.items, fails \in BOOLEAN :
              LET primes == {x \in store : /\ x.kind = "PersistentVolumeClaim"
                                           /\ x.ns = TargetNamespace
                                           /\ x.name = PrimeName(pvc)}
                  c2 == [c EXCEPT !.items = @ \ {pvc}, !.obj = {pvc}]
              IN
              IF primes = {}
              THEN /\ ~fails
                   /\ call' = [call EXCEPT ![w] = c2]
                   /\ pc' = [pc EXCEPT ![w] = "deletePopulatedPVC"]
                   /\ UNCHANGED <<store, quota, last, dirty>>
              ELSE \E primePVC \in primes :
                     LET r == DeleteObject(store, primePVC, fails)
                         c3 == Logged(c2, "Delete", "PersistentVolumeClaim")
                     IN
                     /\ MayFail(fails)
                     /\ store' = r.store
                     /\ IF r.err # "nil" /\ ~IsNotFound(r.err)
                        THEN Return(w, c3, r.err)
                        ELSE /\ call' = Wrote(w, c3)
                             /\ pc' = [pc EXCEPT ![w] = "deletePopulatedPVC"]
                             /\ dirty' = Recording
                             /\ UNCHANGED last

\* deletePopulatedPVC, the delete: DeleteObject on the listed claim.
deletePopulatedPVC_Delete(w) ==
    LET c == call[w] IN
    /\ pc[w] = "deletePopulatedPVC"
    /\ UNCHANGED <<seq, vmStatus, provider, pod, step>>
    /\ \E pvc \in c.obj, fails \in BOOLEAN :
         LET r == DeleteObject(store, pvc, fails)
             c2 == Logged(c, "Delete", "PersistentVolumeClaim")
         IN
         /\ fails => Stored(store, pvc) # {}
         /\ MayFail(fails)
         /\ store' = r.store
         /\ IF r.err # "nil" /\ ~IsNotFound(r.err)
            THEN Return(w, c2, r.err)
            ELSE /\ call' = IF r.store # store THEN Wrote(w, c2) ELSE [call EXCEPT ![w] = c2]
                 /\ pc' = [pc EXCEPT ![w] = "deletePopulatedPVC_patch"]
                 /\ dirty' = (dirty \/ (Recording /\ r.store # store))
                 /\ UNCHANGED last

\* Client.Patch with the merge patch that takes the listed claim's finalizers
\* away: NotFound for a claim that is gone; a claim that is being deleted goes
\* with its last finalizer.
PatchFinalizers(s, pvc, fails) ==
    IF Stored(s, pvc) = {} THEN [err |-> "NotFound", store |-> s]
    ELSE IF fails THEN [err |-> "ServerError", store |-> s]
    ELSE IF ~Terminating(pvc) THEN [err |-> "nil", store |-> s]
    ELSE [err |-> "nil",
          store |-> (s \ Stored(s, pvc)) \cup
                    {[x EXCEPT !.data.finalizers = ""] : x \in {y \in Stored(s, pvc) : ~y.deleting}}]

\* deletePopulatedPVC, the patch that follows a delete that gave no error.
deletePopulatedPVC_Patch(w) ==
    LET c == call[w] IN
    /\ pc[w] = "deletePopulatedPVC_patch"
    /\ UNCHANGED <<seq, vmStatus, provider, pod, step>>
    /\ \E pvc \in c.obj, fails \in BOOLEAN :
         LET r == PatchFinalizers(store, pvc, fails)
             c2 == [Logged(c, "Patch", "PersistentVolumeClaim") EXCEPT !.obj = {}]
         IN
         /\ fails => Stored(store, pvc) # {}
         /\ MayFail(fails)
         /\ store' = r.store
         /\ IF r.err # "nil"
            THEN Return(w, c2, r.err)
            ELSE /\ call' = IF r.store # store THEN Wrote(w, c2) ELSE [call EXCEPT ![w] = c2]
                 /\ pc' = [pc EXCEPT ![w] = "deleteCorrespondingPrimePVC"]
                 /\ dirty' = (dirty \/ (Recording /\ r.store # store))
                 /\ UNCHANGED last

\* Another actor removes an object that a running call has listed.
ExternalDelete ==
    /\ quota > 0
    /\ quota' = quota - 1
    /\ \E w \in Passes, o \in store :
         /\ o \in call[w].items \cup call[w].obj
         /\ store' = store \ {o}
    /\ call' = Disturbed
    /\ dirty' = Recording
    /\ UNCHANGED <<seq, vmStatus, pc, last, provider, pod, step>>

----------------------------------------------------------------------------
(* Specification of the teardown of a VM whose objects the ensure operations
   have created, run step after step by one pass. *)

MaxVolumes == 2     \* volumes of the VM
MaxDisturb == 1     \* failed requests and removals by other actors in one behaviour

PVCProtection == "kubernetes.io/pvc-protection"

\* The objects the ensure operations leave for a VM: the VM, its Secret, its
\* ConfigMap, the conversion pod, the consumer pod, the hook jobs and their pods,
\* and per volume a claim that the VM owns with its DataVolume (import) or with
\* its prime claim (populator).
EnsuredVM(m, id) == emptyVm(m, id, TargetName(SourceName(id)), 1)

\* The jobs of the VM's two hooks, each with the pod that ran it.
EnsuredJob(m, id, j) ==
    Obj("Job", Generated(getGeneratedName(id), 40 + j), 40 + j, vmLabels(m, id), NoData)

EnsuredJobPod(m, id, j) ==
    Obj("Pod", Generated(EnsuredJob(m, id, j).name, 50 + j), 50 + j,
        ("job-name" :> EnsuredJob(m, id, j).name), [PodIP |-> ""])

EnsuredVolume(m, id, i, populator) ==
    LET pvc == [Obj("PersistentVolumeClaim", Generated(getGeneratedName(id), 7 + i), 7 + i,
                    vmLabels(m, id), [finalizers |-> PVCProtection])
                EXCEPT !.owners = {OwnerRef(EnsuredVM(m, id))}]
    IN  {pvc} \cup
        (IF populator
         THEN {Obj("PersistentVolumeClaim", PrimeName(pvc), 20 + i, <<>>, [finalizers |-> ""])}
         ELSE {CreatedDataVolume(dataVolume(m, id, IF i = 1 THEN "d1.vmdk" ELSE "d2.vmdk"), 30 + i)})

Ensured(m, id, n, populator) ==
    {EnsuredVM(m, id),
     secret(m, id, 2, secretDataSetterForCDI("cred1")),
     configMap(m, id, 3),
     guestConversionPod(m, id, 4),
     Obj("Pod", Generated(getGeneratedName(id) \o <<"pvcinit-">>, 5), 5,
         consumerLabels(m, id, FALSE), [PodIP |-> ""])}
    \cup {EnsuredJob(m, id, j) : j \in 1..2} \cup {EnsuredJobPod(m, id, j) : j \in 1..2}
    \cup UNION {EnsuredVolume(m, id, i, populator) : i \in 1..n}

\* The order the migration runs the teardown operations in.
TeardownOrder ==
    <<{"DeleteJobs", "DeleteHookJobs"}, {"DeleteGuestConversionPod"},
      {"DeletePVCConsumerPod"}, {"DeleteVM"}, {"DeletePopulatedPVCs"},
      {"DeleteDataVolumes"}, {"DeleteSecret"}, {"DeleteConfigMap"}>>

\* op is the first operation of a teardown that starts, after a failed step
\* or a finished teardown, or the operation before it has just returned
\* without error for the same VM.
Follows(op, id, m) ==
    \/ /\ op \in TeardownOrder[1]
       /\ last.err # "nil" \/ last.op \in {"none"} \cup TeardownOrder[Len(TeardownOrder)]
    \/ \E i \in 1..(Len(TeardownOrder) - 1) :
         /\ op \in TeardownOrder[i + 1]
         /\ last.op \in TeardownOrder[i]
         /\ last.vm = id /\ last.mig = m /\ last.err = "nil"

InitTeardown ==
    /\ pc = [w \in {1} |-> "idle"]
    /\ last = NoLast
    /\ quota = MaxDisturb
    /\ \E populator \in BOOLEAN : store = Ensured("m1", "a", MaxVolumes, populator)
    /\ seq = Cardinality(store)
    /\ vmStatus = [id \in VMIDs |-> [Name |-> SourceName(id), Firmware |-> ""]]
    /\ call = [w \in DOMAIN pc |-> NoCall]
    /\ dirty = FALSE
    /\ provider = "cred1"
    /\ pod = NoPod
    /\ step = NoStep

NextTeardown ==
    \/ \E w \in Passes, op \in LabelledDeletes, id \in VMIDs :
          Follows(op, id, "m1") /\ DeleteLabelled_List(w, op, id, "m1")
    \/ \E w \in Passes : DeleteLabelled_Delete(w)
    \/ \E w \in Passes, id \in VMIDs :
          Follows("DeleteJobs", id, "m1") /\ DeleteJobs_List(w, id, "m1")
    \/ \E w \in Passes : DeleteJobs_Delete(w)
    \/ \E w \in Passes : DeleteJobs_Pods(w)
    \/ \E w \in Passes, id \in VMIDs :
          Follows("DeleteVM", id, "m1") /\ DeleteVM_List(w, id, "m1")
    \/ \E w \in Passes : DeleteVM_Delete(w)
    \/ \E w \in Passes, id \in VMIDs :
          Follows("DeletePopulatedPVCs", id, "m1") /\ DeletePopulatedPVCs_List(w, id, "m1")
    \/ \E w \in Passes : deleteCorrespondingPrimePVC(w)
    \/ \E w \in Passes : deletePopulatedPVC_Delete(w)
    \/ \E w \in Passes : deletePopulatedPVC_Patch(w)
    \/ \E w \in Passes, id \in VMIDs :
          Follows("DeleteDataVolumes", id, "m1") /\ DeleteDataVolumes_List(w, id, "m1")
    \/ \E w \in Passes : DeleteDataVolumes_Delete(w)
    \/ GarbageCollect
    \/ ExternalDelete

SpecTeardown == InitTeardown /\ [][NextTeardown]_vars

----------------------------------------------------------------------------
(* Populator pods *)

PopulatorPodPrefix == "populate-"

\* The pod that populates a claim: named after the claim's UID and labelled
\* with the migration.
PopulatorPod(m, pvc, uid) ==
    Obj("Pod", <<PopulatorPodPrefix, ToString(pvc.uid)>>, uid, (kMigration :> m), [PodIP |-> ""])

\* getPopulatorPods: the pods of the migration whose name has the prefix.
getPopulatorPods(s, m) ==
    {o \in List(s, "Pod", (kMigration :> m)) : Head(o.name) = PopulatorPodPrefix}

\* DeletePopulatorPods: list the populator pods.
DeletePopulatorPods_List(w, id, m) ==
    /\ Begin(w, "DeletePopulatorPods", id, m, getPopulatorPods(store, m))
    /\ pc' = [pc EXCEPT ![w] = "DeletePopulatorPods_delete"]
    /\ UNCHANGED <<store, seq, vmStatus, last, dirty, quota, provider, pod, step>>

\* One turn of the loop, which no error ends, or the return of the last
\* error after it.
DeletePopulatorPods_Delete(w) ==
    LET c == call[w] IN
    /\ pc[w] = "DeletePopulatorPods_delete"
    /\ UNCHANGED <<seq, vmStatus, provider, pod, step>>
    /\ IF c.items = {}
       THEN /\ Return(w, c, c.err)
            /\ UNCHANGED <<store, quota>>
       ELSE \E o \in c.items, fails \in BOOLEAN :
              LET r == DeleteObject(store, o, fails)
                  c2 == [Logged(c, "Delete", o.kind) EXCEPT !.items = @ \ {o}, !.err = r.err]
              IN
              /\ fails => Stored(store, o) # {}
              /\ MayFail(fails)
              /\ store' = r.store
              /\ call' = IF r.store # store THEN Wrote(w, c2) ELSE [call EXCEPT ![w] = c2]
              /\ dirty' = (dirty \/ (Recording /\ r.store # store))
              /\ UNCHANGED <<pc, last>>

\* SetPopulatorPodOwnership: the claims of the VM (obj) and the populator
\* pods of the migration (items).
SetPopulatorPodOwnership_List(w, id, m) ==
    /\ pc[w] = "idle"
    /\ call' = [call EXCEPT ![w] =
                  [NewCall("SetPopulatorPodOwnership", id, m, getPopulatorPods(store, m))
                   EXCEPT !.obj = getPVCs(store, m, id)]]
    /\ pc' = [pc EXCEPT ![w] = "SetPopulatorPodOwnership_patch"]
    /\ UNCHANGED <<store, seq, vmStatus, last, dirty, quota, provider, pod, step>>

\* pod.Name[len(PopulatorPodPrefix):]
pvcId(p) == p.name[2]

\* One turn of the loop over the pods: a pod named after the UID of one of
\* the VM's claims gets the claim for an owner, by a merge patch.
SetPopulatorPodOwnership_Patch(w) ==
    LET c == call[w] IN
    /\ pc[w] = "SetPopulatorPodOwnership_patch"
    /\ UNCHANGED <<seq, vmStatus, quota, provider, pod, step>>
    /\ IF c.items = {}
       THEN /\ Return(w, c, c.err)
            /\ UNCHANGED store
       ELSE \E p \in c.items :
              LET pvcs == {pvc \in c.obj : ToString(pvc.uid) = pvcId(p)}
                  owners == p.owners \cup {OwnerRef(pvc) : pvc \in pvcs}
                  c2 == [c EXCEPT !.items = @ \ {p}]
              IN
              IF pvcs = {}
              THEN /\ call' = [call EXCEPT ![w] = c2]
                   /\ UNCHANGED <<store, pc, last, dirty>>
              ELSE IF Stored(store, p) = {}
              THEN /\ call' = [call EXCEPT ![w] =
                                 [Logged(c2, "Patch", "Pod") EXCEPT !.err = "NotFound"]]
                   /\ UNCHANGED <<store, pc, last, dirty>>
              ELSE /\ store' = (store \ Stored(store, p))
                                 \cup {[x EXCEPT !.owners = owners] : x \in Stored(store, p)}
                   /\ call' = Wrote(w, [Logged(c2, "Patch", "Pod") EXCEPT !.err = "nil"])
                   /\ dirty' = Recording
                   /\ UNCHANGED <<pc, last>>

----------------------------------------------------------------------------
(* Specification of two VMs of one plan and migration, each with its objects
   in the store, whose operations two passes run in any order. *)

\* UIDs of the objects of a VM.
UidOf(id, k) == IF id = "a" THEN k ELSE 10 + k

PlacedVM(m, id) == emptyVm(m, id, TargetName(SourceName(id)), UidOf(id, 1))

PlacedPVC(m, id) ==
    Obj("PersistentVolumeClaim", Generated(getGeneratedName(id), UidOf(id, 2)), UidOf(id, 2),
        vmLabels(m, id), [finalizers |-> PVCProtection])

Placed(m, id) ==
    {PlacedVM(m, id), PlacedPVC(m, id),
     PopulatorPod(m, PlacedPVC(m, id), UidOf(id, 3)),
     secret(m, id, UidOf(id, 4), secretDataSetterForCDI("cred1"))}

InitIsolation ==
    /\ pc = [w \in {1, 2} |-> "idle"]
    /\ last = NotRecording
    /\ quota = 0
    /\ store = UNION {Placed("m1", id) : id \in VMIDs}
    /\ seq = 20
    /\ vmStatus = [id \in VMIDs |-> [Name |-> SourceName(id), Firmware |-> ""]]
    /\ call = [w \in DOMAIN pc |-> NoCall]
    /\ dirty = FALSE
    /\ provider = "cred1"
    /\ pod = NoPod
    /\ step = NoStep

\* Pass 1 works for VM a, pass 2 for VM b.
VMOfPass(w) == IF w = 1 THEN "a" ELSE "b"

NextIsolation ==
    \/ \E w \in Passes : EnsureVM_List(w, VMOfPass(w), "m1")
    \/ \E w \in Passes : EnsureVM_Create(w)
    \/ \E w \in Passes : EnsureVM_PVCs(w)
    \/ \E w \in Passes : EnsureVM_Patch(w)
    \/ \E w \in Passes : SetPopulatorPodOwnership_List(w, VMOfPass(w), "m1")
    \/ \E w \in Passes : SetPopulatorPodOwnership_Patch(w)
    \/ \E w \in Passes : DeletePopulatorPods_List(w, VMOfPass(w), "m1")
    \/ \E w \in Passes : DeletePopulatorPods_Delete(w)
    \/ \E w \in Passes : DeletePopulatedPVCs_List(w, VMOfPass(w), "m1")
    \/ \E w \in Passes : deleteCorrespondingPrimePVC(w)
    \/ \E w \in Passes : deletePopulatedPVC_Delete(w)
    \/ \E w \in Passes : deletePopulatedPVC_Patch(w)
    \/ \E w \in Passes : DeleteLabelled_List(w, "DeleteSecret", VMOfPass(w), "m1")
    \/ \E w \in Passes : DeleteLabelled_Delete(w)
    \/ GarbageCollect

SpecIsolation == InitIsolation /\ [][NextIsolation]_vars

----------------------------------------------------------------------------
(* Specification of the teardown under a retried migration: the objects that
   the first migration left for two VMs, those of the retried migration, and
   those of another plan are in the store; one pass runs the operations that
   select without the migration label for VM a under the retried migration. *)

OtherPlanUID == "p2"

\* What a migration leaves of a VM besides its VirtualMachine: the Secret,
\* the ConfigMap, the conversion pod, the consumer pod and a hook job with
\* its pod, with UIDs from k on.
LeftBy(m, id, k) ==
    {secret(m, id, k + 1, secretDataSetterForCDI("cred1")),
     configMap(m, id, k + 2),
     guestConversionPod(m, id, k + 3),
     Obj("Pod", Generated(getGeneratedName(id) \o <<"pvcinit-">>, k + 4), k + 4,
         consumerLabels(m, id, FALSE), [PodIP |-> ""]),
     Obj("Job", Generated(getGeneratedName(id), k + 5), k + 5, vmLabels(m, id), NoData),
     Obj("Pod", Generated(getGeneratedName(id), k + 5) \o <<"-pod">>, k + 6,
         ("job-name" :> Generated(getGeneratedName(id), k + 5)), [PodIP |-> ""])}

\* The same object in another plan.
OfOtherPlan(o) ==
    [o EXCEPT !.labels = [@ EXCEPT ![kPlan] = OtherPlanUID],
              !.name = <<OtherPlanUID>> \o @,
              !.uid = @ + 100]

LeftByAll ==
    {PlacedVM("m1", "a"), PlacedVM("m1", "b")}
    \cup LeftBy("m1", "a", 20) \cup LeftBy("m2", "a", 30)
    \cup LeftBy("m1", "b", 40)
    \cup {OfOtherPlan(o) : o \in {PlacedVM("m1", "a")} \cup LeftBy("m1", "a", 50)}

InitLater ==
    /\ pc = [w \in {1} |-> "idle"]
    /\ last = NotRecording
    /\ quota = 0
    /\ store = LeftByAll
    /\ seq = 60
    /\ vmStatus = [id \in VMIDs |-> [Name |-> SourceName(id), Firmware |-> ""]]
    /\ call = [w \in DOMAIN pc |-> NoCall]
    /\ dirty = FALSE
    /\ provider = "cred1"
    /\ pod = NoPod
    /\ step = NoStep

NextLater ==
    \/ \E w \in Passes, op \in LabelledDeletes : DeleteLabelled_List(w, op, "a", "m2")
    \/ \E w \in Passes : DeleteLabelled_Delete(w)
    \/ \E w \in Passes : DeleteJobs_List(w, "a", "m2")
    \/ \E w \in Passes : DeleteJobs_Delete(w)
    \/ \E w \in Passes : DeleteJobs_Pods(w)
    \/ \E w \in Passes : DeleteVM_List(w, "a", "m2")
    \/ \E w \in Passes : DeleteVM_Delete(w)
    \/ GarbageCollect

SpecLater == InitLater /\ [][NextLater]_vars

----------------------------------------------------------------------------
(* ensureObject: the create with delete-and-retry of the objects that have a
   fixed name (the import, the resource mapping and the secret of a VM) *)

\* An ensureObject with one more retry.
retry_Four == 3 + 1

\* The number of times ensureObject deletes and creates again.
retry == 3

\* nameForImport, nameForMapping and nameForSecret: names made of the plan,
\* the VM and UIDs, the same in every call.
nameFor(op, id, m) ==
    CASE op = "EnsureMapping" -> <<"plan-", PlanName, "-", PlanUID>>
      [] op = "EnsureSecret" -> <<"plan-", PlanName, "-", id, "-", PlanUID>>
      [] OTHER -> <<"plan-", PlanName, "-", id, "-", m>>

\* buildImport, buildMapping and buildSecret: the object before it is stored.
build(op, id, m) ==
    CASE op = "EnsureMapping" ->
            Obj("ResourceMapping", nameFor(op, id, m), 0, planLabels(m), NoData)
      [] op = "EnsureSecret" ->
            Obj("Secret", nameFor(op, id, m), 0, planLabels(m), NoData)
      [] OTHER ->
            Obj("VirtualMachineImport", nameFor(op, id, m), 0, vmLabels(m, id), NoData)

\* EnsureImport, EnsureMapping and EnsureSecret: build the object (the Builder
\* may fail) and enter ensureObject.  req holds the requests the call has
\* issued, at the retries it has left.  A behaviour begins no call once
\* MaxCreated objects have been stored.
ensureObject_Begin(w, op, id, m) ==
    /\ pc[w] = "idle"
    /\ seq < quota
    /\ UNCHANGED <<store, seq, vmStatus, quota, provider, pod, step>>
    /\ \E outcome \in {"nil", "BuilderError"} :
         LET c == [NewCall(op, id, m, {}) EXCEPT !.obj = {build(op, id, m)}, !.at = retry] IN
         IF outcome # "nil"
         THEN Return(w, c, outcome)
         ELSE /\ call' = [call EXCEPT ![w] = c]
              /\ pc' = [pc EXCEPT ![w] = "ensureObject_create"]
              /\ UNCHANGED <<last, dirty>>

\* Client.Create at the head of the loop: the object is stored and the call
\* returns; or the name is taken, and the call goes on to delete while it has
\* retries left and returns AlreadyExists when it has none; or the server
\* refuses and the call returns that error.
ensureObject_Create(w) ==
    LET c == call[w]
        o == CHOOSE x \in c.obj : TRUE
        c2 == [Logged(c, "Create", o.kind) EXCEPT !.req = Append(@, "Create")]
    IN
    /\ pc[w] = "ensureObject_create"
    /\ UNCHANGED <<vmStatus, quota, provider, pod, step>>
    /\ \E fails \in BOOLEAN :
         IF fails
         THEN /\ Return(w, c2, "ServerError")
              /\ UNCHANGED <<store, seq>>
         ELSE IF Exists(store, o.kind, o.name)
         THEN IF c.at > 0
              THEN /\ call' = [call EXCEPT ![w] = [c2 EXCEPT !.at = @ - 1]]
                   /\ pc' = [pc EXCEPT ![w] = "ensureObject_delete"]
                   /\ UNCHANGED <<store, seq, last, dirty>>
              ELSE /\ Return(w, c2, "AlreadyExists")
                   /\ UNCHANGED <<store, seq>>
         ELSE LET new == [o EXCEPT !.uid = seq + 1] IN
              /\ store' = store \cup {new}
              /\ seq' = seq + 1
              /\ Return(w, [c2 EXCEPT !.made = @ \cup {new}], "nil")

\* A deleteObject that leaves the stored object alone.
deleteObject_Keep(s, o, fails) == [err |-> "nil", store |-> s]

\* A deleteObject that takes every error for success.
deleteObject_Swallow(s, o, fails) == [ClientDelete(s, o, fails) EXCEPT !.err = "nil"]

\* deleteObject: Client.Delete of the object of that name, NotFound taken for
\* success.
deleteObject(s, o, fails) ==
    LET r == ClientDelete(s, o, fails) IN
    IF IsNotFound(r.err) THEN [r EXCEPT !.err = "nil"] ELSE r

\* deleteObject in the loop: after it the loop creates again, unless the
\* delete failed.
ensureObject_Delete(w) ==
    LET c == call[w]
        o == CHOOSE x \in c.obj : TRUE
        c2 == [Logged(c, "Delete", o.kind) EXCEPT !.req = Append(@, "Delete")]
    IN
    /\ pc[w] = "ensureObject_delete"
    /\ UNCHANGED <<seq, vmStatus, quota, provider, pod, step>>
    /\ \E fails \in BOOLEAN :
         LET r == deleteObject(store, o, fails) IN
         /\ fails => Stored(store, o) # {}
         /\ store' = r.store
         /\ IF r.err # "nil"
            THEN Return(w, c2, r.err)
            ELSE /\ call' = IF r.store # store THEN Wrote(w, c2) ELSE [call EXCEPT ![w] = c2]
                 /\ pc' = [pc EXCEPT ![w] = "ensureObject_create"]
                 /\ dirty' = (dirty \/ (Recording /\ r.store # store))
                 /\ UNCHANGED last

(* Specification of ensureObject: two actors ensure the secret of one VM,
   their requests interleaved. *)

MaxCreated == 4    \* objects stored in one behaviour of SpecEnsureObject

InitEnsureObject ==
    /\ pc = [w \in {1, 2} |-> "idle"]
    /\ last = NoLast
    /\ quota = MaxCreated
    /\ InitCommon

NextEnsureObject ==
    \/ \E w \in Passes : ensureObject_Begin(w, "EnsureSecret", "a", "m1")
    \/ \E w \in Passes : ensureObject_Create(w)
    \/ \E w \in Passes : ensureObject_Delete(w)

SpecEnsureObject == InitEnsureObject /\ [][NextEnsureObject]_vars

\* Every call that has not returned takes its next step in the end.
SpecEnsureObjectFair ==
    /\ SpecEnsureObject
    /\ \A w \in {1, 2} : WF_vars(ensureObject_Create(w) \/ ensureObject_Delete(w))

(* Specification of ensureObject with one actor, which ensures the secret,
   the mapping and the import of a VM one call after the other. *)

EnsureObjectCallers == {"EnsureSecret", "EnsureMapping", "EnsureImport"}

InitEnsureAlone ==
    /\ pc = [w \in {1} |-> "idle"]
    /\ last = NoLast
    /\ quota = MaxCreated
    /\ InitCommon

NextEnsureAlone ==
    \/ \E w \in Passes, op \in EnsureObjectCallers : ensureObject_Begin(w, op, "a", "m1")
    \/ \E w \in Passes : ensureObject_Create(w)
    \/ \E w \in Passes : ensureObject_Delete(w)

SpecEnsureAlone == InitEnsureAlone /\ [][NextEnsureAlone]_vars

----------------------------------------------------------------------------
(* EnsurePopulatorVolumes: the consumer pod that makes the pending claims of
   a VM bind *)

ClaimNames == {<<"pvc-1">>, <<"pvc-2">>}

\* The pod createPodToBindPVCs builds: the consumer role, a generated name,
\* one volume for every claim named.
consumerPod(m, id, uid, pvcNames) ==
    Obj("Pod", Generated(getGeneratedName(id) \o <<"pvcinit-">>, uid), uid,
        consumerLabels(m, id, FALSE), [volumes |-> pvcNames])

\* EnsurePopulatorVolumes: the names of the claims that are Pending among the
\* claims the caller hands over (created).  The call repeats the last when
\* it is for the same VM with the same pending claims.
EnsurePopulatorVolumes_Call(w, id, m) ==
    /\ pc[w] = "idle"
    /\ \E pendingPvcNames \in SUBSET ClaimNames :
         LET c == NewCall("EnsurePopulatorVolumes", id, m, {}) IN
         call' = [call EXCEPT ![w] =
                    [c EXCEPT !.created = pendingPvcNames,
                              !.repeat = @ /\ last.created = pendingPvcNames]]
    /\ pc' = [pc EXCEPT ![w] = "createPodToBindPVCs"]
    /\ UNCHANGED <<store, seq, vmStatus, last, dirty, quota, provider, pod, step>>

\* createPodToBindPVCs: return when no claim is named, else create the pod.
createPodToBindPVCs(w) ==
    LET c == call[w]
        new == consumerPod(c.mig, c.vm, seq + 1, c.created)
    IN
    /\ pc[w] = "createPodToBindPVCs"
    /\ UNCHANGED <<vmStatus, quota, provider, pod, step>>
    /\ IF c.created = {}
       THEN /\ Return(w, c, "nil")
            /\ UNCHANGED <<store, seq>>
       ELSE \E fails \in BOOLEAN :
              IF fails
              THEN /\ Return(w, Logged(c, "Create", "Pod"), "ServerError")
                   /\ UNCHANGED <<store, seq>>
              ELSE /\ seq < quota
                   /\ store' = store \cup {new}
                   /\ seq' = seq + 1
                   /\ Return(w, Made(c, new), "nil")

(* Specification of EnsurePopulatorVolumes, called again and again by one
   pass for either VM with any set of pending claims. *)

MaxPods == 3    \* pods created in one behaviour of SpecPopulator

InitPopulator ==
    /\ pc = [w \in {1} |-> "idle"]
    /\ last = NoLast
    /\ quota = MaxPods
    /\ InitCommon

NextPopulator ==
    \/ \E w \in Passes, id \in VMIDs : EnsurePopulatorVolumes_Call(w, id, "m1")
    \/ \E w \in Passes : createPodToBindPVCs(w)

SpecPopulator == InitPopulator /\ [][NextPopulator]_vars

----------------------------------------------------------------------------
(* The OpenStack client: get, which fetches one resource into the object the
   caller hands over *)

\* The kinds get has a case for, and one it has none for.
SupportedKinds ==
    {"Region", "Project", "Flavor", "Image", "Snapshot", "Volume", "VolumeType",
     "VM", "Network"}

UnsupportedKinds == {"Subnet"}

ResourceID == "r1"

\* A resource as the service holds it, and as get wraps it.
Resource(kind, id, value) == Obj(kind, <<id>>, 0, <<>>, [value |-> value])

\* The object a caller hands over: the zero value of its kind.
ZeroObject(kind) == Resource(kind, "", "")

\* What the service answers to Get for a resource, and for a Project to the
\* list of the user's projects.
ServiceOutcomes(kind) ==
    {"nil", "NotFound"} \cup (IF kind = "Project" THEN {"Forbidden"} ELSE {})

\* The service's resource changes.
ServiceChanges ==
    /\ \E r \in store, value \in {"v1", "v2"} :
         /\ value # r.data.value
         /\ store' = (store \ {r}) \cup {[r EXCEPT !.data.value = value]}
    /\ UNCHANGED <<seq, vmStatus, pc, call, last, dirty, quota, provider, pod, step>>

\* A caller hands get a pointer to an object of some kind, and an ID.  The
\* call's obj is the object the caller's pointer refers to; items is the
\* object the parameter refers to.
get_Call(w, kind) ==
    /\ pc[w] = "idle"
    /\ call' = [call EXCEPT ![w] =
                  [NewCall("get", ResourceID, "m1", {ZeroObject(kind)})
                     EXCEPT !.obj = {ZeroObject(kind)}]]
    /\ pc' = [pc EXCEPT ![w] = "get"]
    /\ UNCHANGED <<store, seq, vmStatus, last, dirty, quota, provider, pod, step>>

\* The type switch: the resource is fetched and the parameter is made to
\* refer to a new object that wraps it; the object the caller's pointer refers
\* to is not written.  On return, made is the caller's object.
get_Switch(w) ==
    LET c == call[w]
        object == CHOOSE o \in c.obj : TRUE
        found == {r \in store : r.kind = object.kind /\ r.name = <<c.vm>>}
    IN
    /\ pc[w] = "get"
    /\ UNCHANGED <<store, seq, vmStatus, quota, provider, pod, step>>
    /\ IF object.kind \notin SupportedKinds
       THEN Return(w, [c EXCEPT !.made = c.obj], "Unsupported")
       ELSE \E first \in ServiceOutcomes(object.kind), second \in {"nil", "NotFound"} :
              LET \* Project: a forbidden Get falls back on the user's projects;
                  \* Flavor: the extra specs are fetched by a second request.
                  again == \/ object.kind = "Project" /\ first = "Forbidden"
                           \/ object.kind = "Flavor" /\ first = "nil"
                  err == IF again THEN second ELSE first
              IN
              /\ ~again => second = "nil"
              /\ IF err # "nil"
                 THEN Return(w, [c EXCEPT !.made = c.obj], err)
                 ELSE Return(w, [c EXCEPT !.items = found, !.made = c.obj], "nil")

InitGet ==
    /\ pc = [w \in {1} |-> "idle"]
    /\ last = NoLast
    /\ store = {Resource(kind, ResourceID, "v1") : kind \in SupportedKinds}
    /\ seq = 0
    /\ vmStatus = [id \in VMIDs |-> [Name |-> SourceName(id), Firmware |-> ""]]
    /\ call = [w \in DOMAIN pc |-> NoCall]
    /\ dirty = FALSE
    /\ quota = 0
    /\ provider = "cred1"
    /\ pod = NoPod
    /\ step = NoStep

NextGet ==
    \/ \E w \in Passes, kind \in SupportedKinds \cup UnsupportedKinds : get_Call(w, kind)
    \/ \E w \in Passes : get_Switch(w)
    \/ ServiceChanges

SpecGet == InitGet /\ [][NextGet]_vars

----------------------------------------------------------------------------
(* Specification of virtualMachine, the builder of the VM definition, called
   with every outcome of its strategies and of the Builder. *)

PreferenceOutcomes == {"ok", "NoOsMap", "NoPreferenceName", "NoPreference"}
TemplateOutcomes == {"ok", "NoTemplate", "ProcessError", "DecodeError"}
BuilderOutcomes == {"nil", "BuilderError"}

\* The call, with the outcomes the strategies and the Builder will have (req).
virtualMachine_Call(w, id, m) ==
    /\ pc[w] = "idle"
    /\ \E p \in PreferenceOutcomes, t \in TemplateOutcomes, b \in BuilderOutcomes :
         call' = [call EXCEPT ![w] = [NewCall("virtualMachine", id, m, {}) EXCEPT
                                         !.req = <<p, t, b>>]]
    /\ pc' = [pc EXCEPT ![w] = "virtualMachine"]
    /\ UNCHANGED <<store, seq, vmStatus, last, dirty, quota, provider, pod, step>>

\* virtualMachine: the name is rewritten where it must be, the definition is
\* built by the first strategy that works, the annotations are added, and
\* the Builder's error is the error returned.  The definition is in made,
\* the name the VM had at the call in created, the strategies tried in log.
virtualMachine_Build(w) ==
    LET c == call[w]
        entry == vmStatus[c.vm].Name
        prefOK == c.req[1] = "ok"
        tmplOK == c.req[2] = "ok"
        object == AddAnnotations(
                     virtualMachine(c.mig, c.vm, TargetName(entry), 0, prefOK, tmplOK),
                     OriginalName(entry), c.vm)
    IN
    /\ pc[w] = "virtualMachine"
    /\ vmStatus' = [vmStatus EXCEPT ![c.vm].Name = TargetName(entry)]
    /\ Return(w, [c EXCEPT !.made = {object},
                           !.created = {entry},
                           !.log = {<<"try", s>> : s \in Tried(prefOK, tmplOK)}],
              c.req[3])
    /\ UNCHANGED <<store, seq, quota, provider, pod, step>>

InitSynth ==
    /\ pc = [w \in {1} |-> "idle"]
    /\ last = NoLast
    /\ quota = 0
    /\ InitCommon

NextSynth ==
    \/ \E w \in Passes, id \in VMIDs : virtualMachine_Call(w, id, "m1")
    \/ \E w \in Passes : virtualMachine_Build(w)

SpecSynth == InitSynth /\ [][NextSynth]_vars

----------------------------------------------------------------------------
(* Claims about EnsureVM and DeleteVM *)

OwnVMs(s, m, id) == List(s, "VirtualMachine", vmLabels(m, id))

PlanVMs(s, id) == List(s, "VirtualMachine", (kPlan :> PlanUID) @@ (kVM :> id))

\* The last call repeated, with no write of anyone else since the call before
\* it began, a call of the same handler that returned no error.
SecondOfTwo(op) ==
    /\ last.op = op
    /\ last.repeat
    /\ last.clean
    /\ ~dirty

\* C1: EnsureVM is idempotent.  When EnsureVM has just returned for the second
\* time in a row for one VM and migration, nothing else having written to the
\* store since the first call began, the second call returned no error, issued
\* no Create, and exactly one VirtualMachine carries the VM's (migration, plan,
\* vmID) labels.
C1_EnsureVMIdempotent ==
    SecondOfTwo("EnsureVM") =>
        /\ last.err = "nil"
        /\ <<"Create", "VirtualMachine">> \notin last.log
        /\ Cardinality(OwnVMs(store, last.mig, last.vm)) = 1

C1_Witness ==
    /\ SecondOfTwo("EnsureVM")
    /\ last.vm = "b"
    /\ Cardinality(OwnVMs(store, last.mig, last.vm)) = 1
    /\ <<"Patch", "PersistentVolumeClaim">> \in last.log

AtMostOneVM == \A id \in VMIDs : Cardinality(PlanVMs(store, id)) <= 1

\* The step in which EnsureVM of pass w returns no error.
EnsureVMReturnsNil(w) ==
    /\ pc[w] = "EnsureVM_patch"
    /\ call[w].items = {}
    /\ pc'[w] = "idle"

\* The VM that EnsureVM of pass w created or adopted is still in the store.
StillStored(w, s) == \E v \in call[w].obj : \E o \in s : o.kind = v.kind /\ o.uid = v.uid

----------------------------------------------------------------------------
(* Claims about the credential Secret and the conversion pod *)

OwnSecrets(s, m, id) == List(s, "Secret", vmLabels(m, id))

Uids(objs) == {o.uid : o \in objs}

OfKind(s, kind) == {o \in s : o.kind = kind}

\* ensureSecret of pass w returns without error in this step.
ensureSecretReturned(w) ==
    pc[w] = "ensureSecret" /\ pc'[w] \notin {"idle", "ensureSecret"}

\* C3: The credential Secret is a per-VM singleton.  No VM ever has two
\* Secrets under its ownership labels; when ensureSecret returns without error
\* (called by DataVolumes, PopulatorVolumes or EnsureGuestConversionPod) the
\* VM has exactly one; the first call creates it, and a later call adds no
\* Secret and leaves that same object in the store.
C3_SecretSingleton ==
    [][\A w \in DOMAIN pc :
         /\ \A m \in Migrations, id \in VMIDs :
               Cardinality(OwnSecrets(store', m, id)) <= 1
         /\ ensureSecretReturned(w) =>
               LET before == OwnSecrets(store, call[w].mig, call[w].vm)
                   after == OwnSecrets(store', call[w].mig, call[w].vm)
               IN
               /\ Cardinality(after) = 1
               /\ before = {} =>
                     Uids(OfKind(store', "Secret")) =
                         Uids(OfKind(store, "Secret")) \cup {seq'}
               /\ before # {} =>
                     /\ Uids(after) = Uids(before)
                     /\ {o.name : o \in after} = {o.name : o \in before}
                     /\ Uids(OfKind(store', "Secret")) = Uids(OfKind(store, "Secret"))
                     /\ seq' = seq]_vars

\* Both VMs have their Secret, and a later call for VM b, made by another
\* caller than the one that created it, is about to update it.
C3_Witness ==
    \E w \in DOMAIN pc :
        /\ pc[w] = "ensureSecret"
        /\ call[w].vm = "b"
        /\ call[w].op = "EnsureGuestConversionPod"
        /\ call[w].items # {}
        /\ call[w].items = OwnSecrets(store, call[w].mig, "b")
        /\ \E o \in call[w].items : o.data.password # ""
        /\ Cardinality(OwnSecrets(store, call[w].mig, "a")) = 1

\* The content of a Secret written from what a data setter produced.
ProducedBy(set) == StoredSecretData(set.Data, set.StringData)

\* Secret o holds no entry that this data setter leaves empty: it was written
\* by this setter and by no other.
WrittenBySetter(o, set) ==
    \A k \in DOMAIN o.data : ProducedBy(set)[k] = "" => o.data[k] = ""

SecretReapplied(w) ==
    ensureSecretReturned(w) =>
        \A o \in OwnSecrets(store, call[w].mig, call[w].vm) :
            WrittenBySetter(o, call[w].secretData) =>
                \A n \in OwnSecrets(store', call[w].mig, call[w].vm) :
                    n.data = ProducedBy(call[w].secretData)

\* C4: Secret content is re-applied on every reconcile.  When ensureSecret
\* returns without error for a VM whose Secret an earlier call with the same
\* data setter wrote, the stored content is what the setter produced from the
\* provider's current credentials, for the Builder-based setter and for
\* copyDataFromProviderSecret alike.
C4_SecretContentReapplied ==
    [][\A w \in DOMAIN pc : SecretReapplied(w)]_vars

\* C4, the Builder-based setter alone (DataVolumes, EnsureGuestConversionPod):
\* the content the setter produced is stored on every call.
C4_BuilderSetterReapplied ==
    [][\A w \in DOMAIN pc : call[w].op # "PopulatorVolumes" => SecretReapplied(w)]_vars

\* PopulatorVolumes is about to update a Secret that copyDataFromProviderSecret
\* wrote before the provider's credentials changed.
C4_Witness ==
    \E w \in DOMAIN pc :
        /\ pc[w] = "ensureSecret"
        /\ call[w].op = "PopulatorVolumes"
        /\ call[w].secretData = copyDataFromProviderSecret("cred2")
        /\ \E o \in call[w].items :
              /\ o \in store
              /\ o.data = ProducedBy(copyDataFromProviderSecret("cred1"))

ConversionPods(s, m, id) == List(s, "Pod", conversionLabels(m, id, TRUE))

\* EnsureGuestConversionPod of pass w returns without error in this step.
EnsureGuestConversionPodReturned(w) ==
    pc[w] = "EnsureGuestConversionPod_create" /\ pc'[w] = "idle"

\* C6: At most one guest-conversion pod per VM.  No VM ever has two pods with
\* its plan and vmID labels and the conversion role; EnsureGuestConversionPod
\* adds a pod only when the VM has none, and when it returns without error
\* the VM has exactly one.
C6_AtMostOneConversionPod ==
    [][\A w \in DOMAIN pc :
         /\ \A id \in VMIDs : Cardinality(ConversionPods(store', "m1", id)) <= 1
         /\ EnsureGuestConversionPodReturned(w) =>
               LET before == ConversionPods(store, call[w].mig, call[w].vm)
                   after == ConversionPods(store', call[w].mig, call[w].vm)
               IN
               /\ Cardinality(after) = 1
               /\ OfKind(store', "Pod") # OfKind(store, "Pod") => before = {}
               /\ before # {} => after = before /\ seq' = seq]_vars

\* A later EnsureGuestConversionPod for a VM that has its pod is about to
\* return.
C6_Witness ==
    \E w \in DOMAIN pc :
        /\ pc[w] = "EnsureGuestConversionPod_create"
        /\ call[w].items # {}
        /\ call[w].items = ConversionPods(store, call[w].mig, call[w].vm)
        /\ Cardinality(call[w].items) = 1

----------------------------------------------------------------------------
(* Claims about EnsureDataVolumes *)

OwnDVs(s, m, id) == List(s, "DataVolume", vmLabels(m, id))

\* The loop of EnsureDataVolumes in pass w takes the requested volume it is
\* at in this step.
EnsureDataVolumesTurn(w) ==
    /\ pc[w] = "EnsureDataVolumes"
    /\ call[w].at <= Len(call[w].req)
    /\ call'[w].at = call[w].at + 1

\* The volumes stored under the VM's labels before the call of pass w.
StoredBefore(w) == OwnDVs(store, call[w].mig, call[w].vm) \ call[w].made

SameIdentifier(a, b) == ResolveDataVolumeIdentifier(a) = ResolveDataVolumeIdentifier(b)

----------------------------------------------------------------------------
(* Claims about UpdateVmByConvertedConfig *)

\* UpdateVmByConvertedConfig of pass w returns in this step; last' holds what
\* it returned and the requests it made.
UpdateVmReturned(w) ==
    pc[w] \in {"UpdateVmByConvertedConfig", "shutdown"} /\ pc'[w] = "idle"

Requested(log, request) == \E e \in log : e[1] = request

\* C7: Conversion polling, not ready.  When GET /ovf fails with connection
\* refused, UpdateVmByConvertedConfig returns no error, leaves the VM's
\* firmware, the step and its progress as they were, and sends no shutdown
\* request.
C7_NotReady ==
    [][\A w \in DOMAIN pc :
         (UpdateVmReturned(w) /\ <<"GET /ovf", "ConnectionRefused">> \in last'.log) =>
             /\ last'.err = "nil"
             /\ vmStatus' = vmStatus
             /\ step' = step
             /\ ~Requested(last'.log, "POST /shutdown")
             /\ pod' = pod]_vars

\* The pod has its address, its server does not listen yet, and the poll
\* was refused.
C7_Witness ==
    /\ last.op = "UpdateVmByConvertedConfig"
    /\ <<"GET /ovf", "ConnectionRefused">> \in last.log
    /\ pod.PodIP # "" /\ pod.server = "down"
    /\ ~step.Completed /\ vmStatus["a"].Firmware = ""

\* C8: Conversion polling, success.  When /ovf returns a parseable descriptor
\* and the shutdown request is issued, the parsed firmware is on the VM and
\* the step is completed with Progress.Completed = Progress.Total; a completed
\* step is never changed again, and a call made when the server is gone
\* changes neither the VM nor the step.
C8_Success ==
    [][\A w \in DOMAIN pc :
         /\ (UpdateVmReturned(w) /\ <<"GET /ovf", "200">> \in last'.log
                /\ Requested(last'.log, "POST /shutdown")) =>
                /\ vmStatus'[call[w].vm].Firmware = GetFirmwareFromConfig(pod.ovf).firmware
                /\ vmStatus'[call[w].vm].Firmware \in {"bios", "efi"}
                /\ ~step.Completed => step'.Completed
                /\ step'.Progress.Completed = step'.Progress.Total
         /\ step.Completed => step' = step
         /\ (pc[w] = "UpdateVmByConvertedConfig" /\ pc'[w] = "idle"
                /\ pod.server = "gone") =>
                vmStatus' = vmStatus /\ step' = step]_vars

\* The descriptor was fetched, the server shut down on request, and the step
\* of two parts is completed.
C8_Witness ==
    /\ last.op = "UpdateVmByConvertedConfig" /\ last.err = "nil"
    /\ <<"GET /ovf", "200">> \in last.log
    /\ <<"POST /shutdown", "200">> \in last.log
    /\ vmStatus["a"].Firmware = "efi"
    /\ step.Completed /\ step.Progress.Completed = 2 /\ step.Progress.Total = 2
    /\ pod.server = "gone"

\* C9: An end-of-stream on POST /shutdown is a graceful completion:
\* UpdateVmByConvertedConfig returns no error and the step is completed.
C9_ShutdownEOF ==
    [][\A w \in DOMAIN pc :
         (UpdateVmReturned(w)
            /\ \E e \in {"EOF", "UnexpectedEOF"} : <<"POST /shutdown", e>> \in last'.log) =>
             /\ last'.err = "nil"
             /\ step'.Completed
             /\ step'.Progress.Completed = step'.Progress.Total]_vars

\* The server dropped the connection of the shutdown request.
C9_Witness ==
    /\ last.op = "UpdateVmByConvertedConfig" /\ last.err = "nil"
    /\ <<"POST /shutdown", "EOF">> \in last.log
    /\ step.Completed
    /\ pod.server = "gone"

\* What the call of this step got from GET /ovf, the read and the parse, if it
\* is a failure other than connection refused.
DescriptorFailure(log) ==
    {e[2] : e \in {x \in log :
        \/ x[1] = "GET /ovf" /\ x[2] \notin {"200", "ConnectionRefused"}
        \/ x[1] = "ReadAll" /\ x[2] # "ok"
        \/ x[1] = "GetFirmwareFromConfig" /\ x[2] # "nil"}}

\* C10: Any transport error of GET /ovf other than connection refused, and any
\* failure to read or parse the descriptor, is returned by
\* UpdateVmByConvertedConfig; no shutdown request is sent and the step is not
\* marked completed.
C10_DescriptorErrors ==
    [][\A w \in DOMAIN pc :
         (UpdateVmReturned(w) /\ DescriptorFailure(last'.log) # {}) =>
             /\ last'.err \in DescriptorFailure(last'.log)
             /\ last'.err # "nil"
             /\ ~Requested(last'.log, "POST /shutdown")
             /\ pod' = pod
             /\ step' = step
             /\ vmStatus' = vmStatus]_vars

\* The server answered with a body that is no descriptor, and the call
\* returned the parser's error.
C10_Witness ==
    /\ last.op = "UpdateVmByConvertedConfig" /\ last.err = "ParseError"
    /\ <<"GET /ovf", "200">> \in last.log
    /\ pod.server = "up" /\ pod.ovf = "<html>"
    /\ ~step.Completed

\* Pass w takes a step of its handler.
PassStep(w) == pc'[w] # pc[w] \/ call'[w] # call[w]

\* C11: When the conversion pod has no address, UpdateVmByConvertedConfig
\* can always take its step, and that step is its return: with no error, no
\* HTTP request made, and the VM status, the step and the pod as they were.
C11_NoAddress ==
    /\ [](\A w \in DOMAIN pc :
            (pc[w] = "UpdateVmByConvertedConfig" /\ pod.PodIP = "") =>
                ENABLED UpdateVmByConvertedConfig_Get(w))
    /\ [][\A w \in DOMAIN pc :
            (pc[w] = "UpdateVmByConvertedConfig" /\ pod.PodIP = "" /\ PassStep(w)) =>
                /\ pc'[w] = "idle"
                /\ last'.op = "UpdateVmByConvertedConfig"
                /\ last'.err = "nil"
                /\ last'.log = {}
                /\ vmStatus' = vmStatus
                /\ step' = step
                /\ pod' = pod]_vars

\* The call returned from a pod that still has no address.
C11_Witness ==
    /\ last.op = "UpdateVmByConvertedConfig" /\ last.err = "nil"
    /\ last.log = {}
    /\ pod.PodIP = ""
    /\ pc[1] = "idle"

----------------------------------------------------------------------------
(* Claims about the teardown *)

\* The places of the delete loops of DeleteVM, DeleteSecret, DeleteConfigMap,
\* DeleteHookJobs, DeletePVCConsumerPod, DeleteGuestConversionPod and DeleteJobs.
TolerantLoops ==
    {"DeleteVM_delete", "DeleteLabelled_delete", "DeleteJobs_delete", "DeleteJobs_pods"}

Gone(o) == Stored(store, o) = {}

\* C12: In DeleteVM, DeleteSecret, DeleteConfigMap, DeleteHookJobs, DeleteJobs,
\* DeletePVCConsumerPod and DeleteGuestConversionPod a listed object that is
\* gone when its delete is issued gives no error: no call returns NotFound, a
\* loop whose listed objects are all gone does not return on them, and the
\* turn that handles a gone object leaves the store alone and goes on with
\* the other listed objects.
C12_NotFoundTolerated ==
    [][\A w \in DOMAIN pc :
         (pc[w] \in TolerantLoops /\ PassStep(w)) =>
            /\ pc'[w] = "idle" => last'.err # "NotFound"
            /\ (call[w].items # {} /\ \A o \in call[w].items : Gone(o)) => pc'[w] = pc[w]
            /\ \A o \in call[w].items :
                  (Gone(o) /\ pc'[w] # "idle" /\ o \notin call'[w].items) =>
                     /\ store' = store
                     /\ pc'[w] = pc[w]
                     /\ call'[w].items = call[w].items \ {o}]_vars

\* DeleteHookJobs has handled both listed jobs, one of which another actor
\* had removed after the list, while nothing of the VM was being deleted yet.
C12_Witness ==
    /\ pc[1] = "DeleteLabelled_delete"
    /\ call[1].op = "DeleteHookJobs"
    /\ call[1].items = {}
    /\ <<"Delete", "Job">> \in call[1].log
    /\ ~call[1].clean
    /\ quota < MaxDisturb
    /\ EnsuredVM("m1", "a") \in store
    /\ \A o \in store : o.kind # "Job" /\ ~o.deleting

\* C13: DeleteDataVolumes takes a listed DataVolume that another actor has
\* removed for deleted: the call does not return NotFound, and while listed
\* volumes are left, all of them gone, the loop goes on.
C13_DataVolumesNotFoundTolerated ==
    [][\A w \in DOMAIN pc :
         (pc[w] = "DeleteDataVolumes_delete" /\ PassStep(w)) =>
            /\ pc'[w] = "idle" => last'.err # "NotFound"
            /\ (call[w].items # {} /\ \A o \in call[w].items : Gone(o)) => pc'[w] = pc[w]]_vars

\* DeleteDataVolumes has returned NotFound and a DataVolume of the VM is left.
C13_Witness ==
    /\ last.op = "DeleteDataVolumes"
    /\ last.err = "NotFound"
    /\ pc[1] = "idle"
    /\ List(store, "DataVolume", vmLabels("m1", "a")) # {}

\* The places of DeletePopulatedPVCs.
PopulatedPVCSteps ==
    {"deleteCorrespondingPrimePVC", "deletePopulatedPVC", "deletePopulatedPVC_patch"}

\* C14: DeletePopulatedPVCs returns no error for a listed claim, or a prime
\* claim, that is gone: whether the claim was gone before its delete was
\* issued or went between the delete and the patch that takes its finalizers
\* away, the call does not return NotFound.
C14_PopulatedPVCsNotFoundTolerated ==
    [][\A w \in DOMAIN pc :
         (pc[w] \in PopulatedPVCSteps /\ PassStep(w) /\ pc'[w] = "idle") =>
            last'.err # "NotFound"]_vars

\* DeletePopulatedPVCs has returned NotFound from the patch of a claim.
C14_Witness ==
    /\ last.op = "DeletePopulatedPVCs"
    /\ last.err = "NotFound"
    /\ <<"Patch", "PersistentVolumeClaim">> \in last.log
    /\ pc[1] = "idle"

\* C14, the prime claim: a prime claim that is gone when
\* deleteCorrespondingPrimePVC looks for it or deletes it gives no error, and
\* the operation goes on to the listed claim.
C14_PrimeGoneTolerated ==
    [][\A w \in DOMAIN pc :
         (pc[w] = "deleteCorrespondingPrimePVC" /\ pc'[w] # pc[w] /\ call[w].items # {}
            /\ \A pvc \in call[w].items : ~Exists(store, "PersistentVolumeClaim", PrimeName(pvc))) =>
            pc'[w] = "deletePopulatedPVC"]_vars

\* Every operation of the teardown of VM id has returned without error, one
\* after the other, and no pass is at work.
TeardownCompleted(id) ==
    /\ last.op \in TeardownOrder[Len(TeardownOrder)]
    /\ last.vm = id
    /\ last.err = "nil"
    /\ \A w \in DOMAIN pc : pc[w] = "idle"

CascadeFinished == \A o \in store : ~o.deleting

CarriesLabelsOf(o, id) == Matches(vmAllButMigrationLabels("m1", id), o.labels)

\* C15: Once every teardown operation has returned without error for a VM
\* and the cascade has finished, the store holds no object that carries the
\* VM's ownership labels.
C15_TeardownComplete ==
    \A id \in VMIDs :
        (TeardownCompleted(id) /\ CascadeFinished) =>
            \A o \in store : ~CarriesLabelsOf(o, id)

\* The teardown of VM a has completed and a hook job of the VM is left.
C15_Witness ==
    /\ TeardownCompleted("a")
    /\ CascadeFinished
    /\ \E o \in store : o.kind = "Job" /\ CarriesLabelsOf(o, "a")

\* C15, but for the jobs: every object that carries the VM's labels after a
\* completed teardown is a hook job (one that DeleteJobs failed to delete).
C15_CompleteButForJobs ==
    \A id \in VMIDs :
        (TeardownCompleted(id) /\ CascadeFinished) =>
            \A o \in store : CarriesLabelsOf(o, id) => o.kind = "Job"

\* Pass w takes a step of its handler (the cluster's own steps change no more
\* of a pass than its clean mark).
HandlerStep(w) ==
    \/ pc'[w] # pc[w]
    \/ [call'[w] EXCEPT !.clean = TRUE] # [call[w] EXCEPT !.clean = TRUE]

\* The VM the step of pass w is for.
StepVM(w) == IF pc[w] = "idle" THEN call'[w].vm ELSE call[w].vm

\* C16: The teardown that follows a completed teardown of the same VM changes
\* nothing and gives no error.  Stated for its first operation, which runs
\* while the last call on record is the last operation of the completed run:
\* none of its steps changes the store and it returns no error.
C16_SecondTeardown ==
    [][\A w \in DOMAIN pc :
         (/\ last.op \in TeardownOrder[Len(TeardownOrder)]
          /\ last.err = "nil"
          /\ CascadeFinished
          /\ HandlerStep(w)
          /\ StepVM(w) = last.vm) =>
            /\ store' = store
            /\ pc'[w] = "idle" => last'.err = "nil"]_vars

\* A teardown of VM a has completed and the first operation of the next one
\* has deleted a job.
C16_Witness ==
    /\ last.op \in TeardownOrder[Len(TeardownOrder)]
    /\ last.vm = "a"
    /\ last.err = "nil"
    /\ pc[1] # "idle"
    /\ call[1].vm = "a"
    /\ <<"Delete", "Job">> \in call[1].log
    /\ \A o \in store : o.kind # "Job"

\* C16, where nothing is left or nothing was created: while no object
\* carries the labels of a VM, a teardown operation for that VM lists
\* nothing, and an operation that has listed nothing changes nothing in the
\* store and returns no error.
C16_NothingToTearDown ==
    [][\A w \in DOMAIN pc :
         (/\ HandlerStep(w)
          /\ \A o \in store : ~CarriesLabelsOf(o, StepVM(w))
          /\ pc[w] = "idle" \/ (call[w].log = {} /\ call[w].items = {})) =>
            /\ call'[w].items = {}
            /\ store' = store
            /\ pc'[w] = "idle" => last'.err = "nil"]_vars

\* The whole teardown of VM b, for which nothing was created, has completed
\* and every object of VM a is where it was.
C16_NothingWitness ==
    /\ TeardownCompleted("b")
    /\ \E populator \in BOOLEAN : store = Ensured("m1", "a", MaxVolumes, populator)

\* The places of the delete loops of the operations that delete several
\* listed objects.
DeleteLoops ==
    {"DeleteLabelled_delete", "DeleteJobs_delete", "DeleteJobs_pods",
     "DeleteDataVolumes_delete", "deleteCorrespondingPrimePVC", "deletePopulatedPVC",
     "deletePopulatedPVC_patch"}

\* C17: In DeleteSecret, DeleteConfigMap, DeleteHookJobs, DeleteJobs,
\* DeletePVCConsumerPod, DeleteGuestConversionPod, DeleteDataVolumes and
\* DeletePopulatedPVCs a failed delete does not keep the delete of the other
\* listed objects from being attempted: an operation returns only from the
\* turn for the last of its listed objects (items holds the listed objects
\* that have had no turn yet; in DeletePopulatedPVCs the claim of the turn is
\* taken out of items at the start of its turn).
C17_DeletesIndependent ==
    [][\A w \in DOMAIN pc :
         (pc[w] \in DeleteLoops /\ pc'[w] = "idle") =>
            IF pc[w] \in PopulatedPVCSteps \ {"deleteCorrespondingPrimePVC"}
            THEN call[w].items = {}
            ELSE Cardinality(call[w].items) <= 1]_vars

\* DeleteDataVolumes has returned the server's error of one delete and has
\* left a listed DataVolume without a delete.
C17_Witness ==
    /\ last.op = "DeleteDataVolumes"
    /\ last.err = "ServerError"
    /\ pc[1] = "idle"
    /\ Cardinality(List(store, "DataVolume", vmLabels("m1", "a"))) > 1

\* C17 for DeleteJobs: the loops of DeleteJobs go on after a failed delete.
C17_JobsIndependent ==
    [][\A w \in DOMAIN pc :
         (pc[w] \in {"DeleteJobs_delete", "DeleteJobs_pods"} /\ pc'[w] = "idle") =>
            call[w].items = {} /\ call[w].created = {}]_vars

----------------------------------------------------------------------------
(* Claims about the isolation of VMs *)

\* The objects of a VM: those labelled with its vmID and the populator pods
\* that serve its claims.
BelongsTo(o, id) ==
    \/ kVM \in DOMAIN o.labels /\ o.labels[kVM] = id
    \/ o.kind = "Pod" /\ o.name = PopulatorPod("m1", PlacedPVC("m1", id), 0).name

\* C18: No step of an operation for one VM deletes or patches an object of
\* another VM of the plan and migration: every such object is in the store
\* after the step as it was before.
C18_Isolation ==
    [][\A w \in DOMAIN pc :
         HandlerStep(w) =>
            \A o \in store :
               (\E id \in VMIDs \ {StepVM(w)} : BelongsTo(o, id)) => o \in store']_vars

\* DeletePopulatorPods for VM a has had its turn for the pod of VM b's claim
\* and the pod is gone, with pass 2 idle and all else in its place.
C18_Witness ==
    /\ pc[1] = "DeletePopulatorPods_delete"
    /\ pc[2] = "idle"
    /\ call[1].vm = "a"
    /\ call[1].items = {PopulatorPod("m1", PlacedPVC("m1", "a"), UidOf("a", 3))}
    /\ store = UNION {Placed("m1", id) : id \in VMIDs}
                 \ {PopulatorPod("m1", PlacedPVC("m1", "b"), UidOf("b", 3))}

\* C18 for every operation but DeletePopulatorPods: EnsureVM,
\* SetPopulatorPodOwnership, DeletePopulatedPVCs and DeleteSecret for one VM
\* leave the objects of the other VM as they are.
C18_IsolationButForPopulatorPods ==
    [][\A w \in DOMAIN pc :
         (HandlerStep(w) /\ pc[w] # "DeletePopulatorPods_delete") =>
            \A o \in store :
               (\E id \in VMIDs \ {StepVM(w)} : BelongsTo(o, id)) => o \in store']_vars

\* SetPopulatorPodOwnership for VM a has made a's claim the owner of a's pod.
C18_OwnershipWitness ==
    \E o \in store :
        /\ BelongsTo(o, "a") /\ o.kind = "Pod"
        /\ OwnerRef(PlacedPVC("m1", "a")) \in o.owners

----------------------------------------------------------------------------
(* Claims about the synthesis of the VM definition *)

virtualMachineReturned == last.op = "virtualMachine"

HasTried(s) == <<"try", s>> \in last.log

\* C19: virtualMachine tries the preference first, the template only when
\* the preference failed and the empty definition only when both failed;
\* whatever the outcomes of the two, it produces a VM definition, the one of
\* the first strategy that worked, and returns no error but the Builder's.
C19_FallbackOrder ==
    virtualMachineReturned =>
        /\ HasTried("vmPreference")
        /\ HasTried("vmTemplate") <=> last.req[1] # "ok"
        /\ HasTried("emptyVm") <=> (last.req[1] # "ok" /\ last.req[2] # "ok")
        /\ \E object \in last.made :
             /\ last.made = {object}
             /\ object.kind = "VirtualMachine"
             /\ object.data.synth = IF last.req[1] = "ok" THEN "preference"
                                    ELSE IF last.req[2] = "ok" THEN "template"
                                    ELSE "empty"
        /\ last.err = last.req[3]
        /\ last.err \in BuilderOutcomes

\* virtualMachine has returned the empty definition, without error, after
\* both strategies failed.
C19_Witness ==
    /\ virtualMachineReturned
    /\ last.req[1] = "NoPreference" /\ last.req[2] = "DecodeError"
    /\ last.err = "nil"
    /\ \E object \in last.made : object.data.synth = "empty"

C20_UnchangedWitness ==
    /\ virtualMachineReturned
    /\ last.vm = "a"
    /\ \E object \in last.made :
         object.name = SourceName("a") /\ DOMAIN object.data = {"synth"}

----------------------------------------------------------------------------
(* Claims about the creation of objects under a fixed name *)

\* The last call was an EnsureVM whose list found no VirtualMachine and whose
\* Create was rejected.
CreateRejected ==
    /\ last.op = "EnsureVM"
    /\ <<"Create", "VirtualMachine">> \in last.log
    /\ last.made = {}

\* C21: AlreadyExists on create is resolved by re-fetching.  When EnsureVM's
\* list finds no VirtualMachine and its Create is rejected with AlreadyExists
\* (a VirtualMachine of the same name remains from an earlier migration of
\* the plan), EnsureVM adopts the existing VirtualMachine and returns no
\* error.
C21_AlreadyExistsAdopted == CreateRejected => last.err = "nil"

\* An EnsureVM of the retried migration returned AlreadyExists: the
\* VirtualMachine of the first migration has the name it wanted to create.
C21_Witness ==
    /\ CreateRejected
    /\ last.mig = "m2"
    /\ last.err = "AlreadyExists"
    /\ \E o \in PlanVMs(store, last.vm) : o.labels[kMigration] = "m1"

\* EnsureVM of pass w has found a VirtualMachine with the VM's ownership
\* labels: its list returned one, or it is past the list and has created none.
FoundVM(w) ==
    /\ call[w].op = "EnsureVM"
    /\ \/ pc[w] = "EnsureVM_create" /\ call[w].items # {}
       \/ pc[w] \in {"EnsureVM_pvcs", "EnsureVM_patch"} /\ call[w].made = {}

\* The requests pass w has issued in its call when its step is taken.
IssuedAfter(w) == IF pc'[w] = "idle" THEN last'.log ELSE call'[w].log

\* C22: An existing target VM is canonical.  When EnsureVM has found a
\* VirtualMachine with the VM's ownership labels, no step of the call changes
\* a VirtualMachine in the store, and the call issues no Create, Update or
\* Patch of a VirtualMachine: what the found VM holds is preserved.
C22_FoundVMUntouched ==
    [][\A w \in DOMAIN pc :
         (FoundVM(w) /\ HandlerStep(w)) =>
             /\ OfKind(store', "VirtualMachine") = OfKind(store, "VirtualMachine")
             /\ \A verb \in {"Create", "Update", "Patch"} :
                    <<verb, "VirtualMachine">> \notin IssuedAfter(w)]_vars

\* An EnsureVM that found the VM returned after it patched a claim; the VM it
\* found is in the store.
C22_Witness ==
    /\ last.op = "EnsureVM"
    /\ last.err = "nil"
    /\ last.made = {}
    /\ <<"Patch", "PersistentVolumeClaim">> \in last.log
    /\ OwnVMs(store, last.mig, last.vm) # {}

----------------------------------------------------------------------------
(* Claims about the ownership of the VM's claims *)

\* The last call was an EnsureVM that returned no error, and nothing else has
\* written to the store since it began.
EnsureVMDone ==
    /\ last.op = "EnsureVM"
    /\ last.err = "nil"
    /\ last.clean
    /\ ~dirty

\* The claims in the store that carry migration m and vmID id.
ClaimsOf(s, m, id) ==
    {p \in OfKind(s, "PersistentVolumeClaim") :
        p.labels[kMigration] = m /\ p.labels[kVM] = id}

\* Object v is removed from the store in this step.
Removed(v) == v \in store /\ ~\E o \in store' : o.kind = v.kind /\ o.uid = v.uid

C23_CascadeWitness ==
    /\ last.op = "DeleteVM"
    /\ seq = MaxSeq
    /\ \E v \in OfKind(store, "VirtualMachine") : v.deleting
    /\ OfKind(store, "PersistentVolumeClaim") = {}

----------------------------------------------------------------------------
(* Claims about the order of the Secret, the config payload and their users *)

OwnConfigMaps(s, m, id) == List(s, "ConfigMap", vmLabels(m, id))

\* Where a pass is once ensureSecret and ensureConfigMap (or
\* ensureLibvirtConfigMap) have returned to DataVolumes or to
\* EnsureGuestConversionPod.
PastEnsure == {"dataVolumes", "guestConversionPod", "EnsureGuestConversionPod_create"}

\* Where a pass is while the Secret or the ConfigMap is being ensured.
InEnsure == {"ensureSecret", "ensureConfigMap", "ensureConfigMap_create",
             "ensureLibvirtConfigMap"}

\* C24: Ordering.  When DataVolumes comes to build the DataVolume specs, and
\* when EnsureGuestConversionPod comes to build and create the conversion pod,
\* the VM's Secret and ConfigMap are in the store; a conversion pod is only
\* created by a step that finds them there; and a call that returns while the
\* Secret or the ConfigMap is being ensured has built no DataVolume spec and
\* creates no pod.
C24_Ordering ==
    /\ [](\A w \in DOMAIN pc :
            pc[w] \in PastEnsure =>
                /\ OwnSecrets(store, call[w].mig, call[w].vm) # {}
                /\ OwnConfigMaps(store, call[w].mig, call[w].vm) # {})
    /\ [][\A p \in OfKind(store', "Pod") \ OfKind(store, "Pod") :
            /\ OwnSecrets(store, p.labels[kMigration], p.labels[kVM]) # {}
            /\ OwnConfigMaps(store, p.labels[kMigration], p.labels[kVM]) # {}]_vars
    /\ [][\A w \in DOMAIN pc :
            (pc[w] \in InEnsure /\ pc'[w] \notin InEnsure) =>
                \/ pc'[w] \in PastEnsure \cup {"PopulatorVolumes"}
                \/ /\ pc'[w] = "idle"
                   /\ OfKind(store', "Pod") = OfKind(store, "Pod")
                   /\ OfKind(store', "DataVolume") = OfKind(store, "DataVolume")]_vars

\* EnsureGuestConversionPod is about to create the pod of a VM that had none;
\* the VM's Secret and its ConfigMap, with the domain written, are stored.
C24_Witness ==
    \E w \in DOMAIN pc :
        /\ pc[w] = "EnsureGuestConversionPod_create"
        /\ call[w].items = {}
        /\ \E cm \in OwnConfigMaps(store, call[w].mig, call[w].vm) :
              cm.data.inputxml = libvirtDomain(call[w].vm, call[w].at)
        /\ OwnSecrets(store, call[w].mig, call[w].vm) # {}

----------------------------------------------------------------------------
(* Claims about the errors of the loops that go on after a failure *)

\* The places of the loops of DeleteJobs, DeletePopulatorPods and
\* SetPopulatorPodOwnership, which keep the error of a turn in err and go on.
GoOnLoops ==
    {"DeleteJobs_delete", "DeleteJobs_pods", "DeletePopulatorPods_delete",
     "SetPopulatorPodOwnership_patch"}

\* C25: No silent error swallowing in the operations that go on after a
\* failure.  Once a delete or patch of one object has failed with an error
\* other than NotFound, whatever turn of the loop it was, the error is not
\* lost: every later step of the call keeps an error, and the call returns
\* one.
C25_NoErrorSwallowed ==
    [][\A w \in DOMAIN pc :
         (/\ pc[w] \in GoOnLoops
          /\ call[w].err \notin {"nil", "NotFound"}
          /\ HandlerStep(w)) =>
             IF pc'[w] = "idle" THEN last'.err # "nil" ELSE call'[w].err # "nil"]_vars

\* DeleteJobs has returned no error, nothing else having written to the store
\* while it ran, and a job it listed is still stored: its delete failed.
C25_Witness ==
    /\ last.op = "DeleteJobs"
    /\ last.err = "nil"
    /\ last.clean
    /\ ~dirty
    /\ quota < MaxDisturb
    /\ List(store, "Job", vmAllButMigrationLabels(last.mig, last.vm)) # {}

\* The places where ensureSecret, ensureConfigMap and dataVolumes begin: each
\* asks the inventory for the VM first.
AtInventory == {"idle", "ensureConfigMap", "dataVolumes"}

\* The step of pass w returns the inventory's error.
ReturnsInventoryError(w) ==
    /\ pc[w] \in AtInventory
    /\ pc'[w] = "idle"
    /\ last' # last
    /\ last'.err = "InventoryError"

\* C26: Inventory validation precedes writes.  Wherever ensureSecret,
\* ensureConfigMap or dataVolumes begins, it can return the inventory's error
\* for a VM reference that no longer resolves, and the step that returns it
\* writes nothing to the store and issues no Create or Update: the requests
\* on record are those the caller had issued before.
C26_InventoryFirst ==
    /\ [](\A w \in DOMAIN pc :
            /\ pc[w] = "idle" =>
                 \A op \in SecretCallers :
                    ENABLED (ensureSecret_List(w, op, "a", "m1")
                                /\ last'.err = "InventoryError" /\ last'.op = op)
            /\ pc[w] = "ensureConfigMap" =>
                 ENABLED (ensureConfigMap_List(w) /\ last'.err = "InventoryError")
            /\ pc[w] = "dataVolumes" =>
                 ENABLED (dataVolumes_Build(w) /\ last'.err = "InventoryError"))
    /\ [][\A w \in DOMAIN pc :
            ReturnsInventoryError(w) =>
                /\ store' = store
                /\ last'.log = call[w].log
                /\ last'.made = call[w].made]_vars

\* ensureConfigMap has returned the inventory's error to DataVolumes, after
\* ensureSecret had created the Secret: no ConfigMap is stored.
C26_Witness ==
    /\ last.op = "DataVolumes"
    /\ last.err = "InventoryError"
    /\ last.log = {<<"Create", "Secret">>}
    /\ OfKind(store, "ConfigMap") = {}
    /\ pc[1] = "idle"

----------------------------------------------------------------------------
(* Claims about the teardown under a retried migration *)

\* The operations that select by plan and vmID, without the migration.
AcrossMigrations == LabelledDeletes \cup {"DeleteJobs", "DeleteVM"}

\* The role label of the pods an operation is about.
RoleOf(op) ==
    CASE op = "DeletePVCConsumerPod" -> {"consumer"}
      [] op = "DeleteGuestConversionPod" -> {"virt-v2v"}
      [] OTHER -> {}

\* Object o is one that operation op for VM id of the plan is to remove,
\* whatever migration created it: it has the kind, the plan, the vmID and the
\* role, or it is the pod of such a job.
Labelled(o, op, id) ==
    /\ o.kind = ListedKind(op)
    /\ kPlan \in DOMAIN o.labels /\ o.labels[kPlan] = PlanUID
    /\ kVM \in DOMAIN o.labels /\ o.labels[kVM] = id
    /\ RoleOf(op) # {} => (kApp \in DOMAIN o.labels /\ o.labels[kApp] \in RoleOf(op))

InScope(o, op, id) ==
    \/ Labelled(o, op, id)
    \/ /\ op = "DeleteJobs"
       /\ o.kind = "Pod"
       /\ "job-name" \in DOMAIN o.labels
       /\ \E j \in LeftByAll : Labelled(j, op, id) /\ j.name = o.labels["job-name"]

\* C27: Teardown survives retried migrations.  DeleteVM, DeleteSecret,
\* DeleteConfigMap, DeleteHookJobs, DeleteJobs, DeletePVCConsumerPod and
\* DeleteGuestConversionPod, run for a VM under a later migration, remove
\* nothing but objects of their kind that carry the plan and the vmID of that
\* VM (and, in DeleteJobs, the pods of those jobs), and when one of them
\* returns none of those objects is left whatever migration it carries (a
\* VirtualMachine may still be in its foreground deletion).
C27_TeardownAcrossMigrations ==
    [][\A w \in DOMAIN pc :
         (HandlerStep(w) /\ pc[w] # "idle" /\ call[w].op \in AcrossMigrations) =>
             /\ \A o \in store \ store' : InScope(o, call[w].op, call[w].vm)
             /\ pc'[w] = "idle" =>
                  \A o \in store' :
                     Labelled(o, call[w].op, call[w].vm) =>
                         o.kind = "VirtualMachine" /\ o.deleting]_vars

\* Every operation has run for VM a under the retried migration and the
\* cascade is over: what is left of the store is what VM b and the other plan
\* had, the Secrets of both migrations of VM a are gone.
C27_Witness ==
    /\ pc[1] = "idle"
    /\ store = {PlacedVM("m1", "b")} \cup LeftBy("m1", "b", 40)
               \cup {OfOtherPlan(o) : o \in {PlacedVM("m1", "a")} \cup LeftBy("m1", "a", 50)}

----------------------------------------------------------------------------
(* Claims about ensureObject *)

RECURSIVE Count(_, _)
\* The number of requests v among the requests s.
Count(s, v) ==
    IF s = <<>> THEN 0
    ELSE (IF Head(s) = v THEN 1 ELSE 0) + Count(Tail(s), v)

\* The requests pass w has issued in ensureObject when its step is taken.
RequestsAfter(w) == IF pc'[w] = "idle" THEN last'.req ELSE call'[w].req

\* The name of the object of pass w is taken.
NameTaken(w) == \E o \in call[w].obj : Exists(store, o.kind, o.name)

\* C28: ensureObject always terminates.  A call issues at most 4 Create and
\* at most 3 Delete requests, also when every Create is rejected with
\* AlreadyExists; a Create that is rejected when no retry is left ends the
\* call, which returns AlreadyExists (or the error of a server that refused
\* the request); and every call returns.
C28_EnsureObjectTerminates ==
    /\ [][\A w \in DOMAIN pc :
            (pc[w] \in {"ensureObject_create", "ensureObject_delete"} /\ HandlerStep(w)) =>
                /\ Count(RequestsAfter(w), "Create") <= 4
                /\ Count(RequestsAfter(w), "Delete") <= 3
                /\ (pc[w] = "ensureObject_create" /\ call[w].at = 0 /\ NameTaken(w)) =>
                      /\ pc'[w] = "idle"
                      /\ last'.err \in {"AlreadyExists", "ServerError"}]_vars
    /\ \A w \in {1, 2} : (pc[w] # "idle") ~> (pc[w] = "idle")

\* A call has returned AlreadyExists after 4 Create and 3 Delete requests:
\* every object it deleted was followed by another of the same name.
C28_Witness ==
    /\ last.err = "AlreadyExists"
    /\ Count(last.req, "Create") = 4
    /\ Count(last.req, "Delete") = 3
    /\ seq = 4

\* C29: Delete-and-retry can destroy a concurrent actor's object.  The
\* deleteObject of an actor whose Create was rejected removes whatever object
\* has the name, the one another actor's call has just created included:
\* after a deleteObject that gave no error no object of that name is stored.
\* With two actors in ensureObject for the same name a state is reached where
\* one has returned success and its object is no longer in the store (the
\* witness).
C29_DeleteAndRetryDestroys ==
    [][\A w \in DOMAIN pc :
         (/\ pc[w] = "ensureObject_delete"
          /\ HandlerStep(w)
          /\ pc'[w] = "ensureObject_create") =>
             /\ \A o \in call[w].obj : Stored(store', o) = {}
             /\ \A o \in store \ store' : o \notin call[w].made]_vars

\* The last call to return created the secret and returned no error; the
\* other actor, whose Create that secret made fail, has deleted it and has
\* not created its own yet: no secret is stored.
C29_Witness ==
    /\ last.op = "EnsureSecret"
    /\ last.err = "nil"
    /\ last.made # {}
    /\ OfKind(store, "Secret") = {}
    /\ \E w \in DOMAIN pc :
          /\ pc[w] = "ensureObject_create"
          /\ call[w].req = <<"Create", "Delete">>
          /\ ~call[w].clean
          /\ \A v \in DOMAIN pc \ {w} : pc[v] = "idle"

----------------------------------------------------------------------------
(* Claims about the consumer pod *)

ConsumerPods(s, m, id) == List(s, "Pod", consumerLabels(m, id, FALSE))

\* C30: EnsurePopulatorVolumes is idempotent with respect to the consumer
\* pod.  When it has returned for the second time in a row for one VM with
\* the same pending claims, the first call having found no consumer pod of
\* the VM (no other pod was created before), exactly one consumer pod of the
\* VM is stored; and a call with no pending claim creates no pod.
C30_ConsumerPodIdempotent ==
    /\ (/\ SecondOfTwo("EnsurePopulatorVolumes")
        /\ last.created # {}
        /\ seq <= 2) =>
            Cardinality(ConsumerPods(store, last.mig, last.vm)) = 1
    /\ (last.op = "EnsurePopulatorVolumes" /\ last.created = {}) =>
            <<"Create", "Pod">> \notin last.log

\* The second of two calls for the same VM and the same pending claims has
\* returned: two consumer pods with the same volumes are stored.
C30_Witness ==
    /\ SecondOfTwo("EnsurePopulatorVolumes")
    /\ last.created = ClaimNames
    /\ \E p, q \in ConsumerPods(store, last.mig, last.vm) :
          p # q /\ p.data.volumes = q.data.volumes

\* What holds of C30: a call with no pending claim creates no pod, and a
\* call with pending claims that returns no error has created one pod.
C30_OnePodPerCall ==
    last.op = "EnsurePopulatorVolumes" =>
        /\ last.created = {} => last.made = {}
        /\ (last.created # {} /\ last.err = "nil") => Cardinality(last.made) = 1


----------------------------------------------------------------------------
(* Claims about the config payload *)

\* ensureConfigMap of pass w hands its ConfigMap on in this step.
ensureConfigMapReturned(w) ==
    pc[w] = "ensureConfigMap_create" /\ pc'[w] \notin {"idle", "ensureConfigMap_create"}

\* ensureLibvirtConfigMap of pass w returns without error in this step.
ensureLibvirtConfigMapReturned(w) ==
    pc[w] = "ensureLibvirtConfigMap" /\ pc'[w] = "guestConversionPod"

\* C31: The config payload is a per-VM singleton, updated in place.  In a
\* sequence of ensureConfigMap and ensureLibvirtConfigMap calls for one VM in
\* one migration, the VM never has two ConfigMaps; when ensureConfigMap
\* returns, exactly one ConfigMap carries the VM's labels, and it is the one
\* handed on; and when ensureLibvirtConfigMap returns, that same ConfigMap has
\* as its input.xml the domain of the VM definition and claims of this call,
\* its other entries, its name and its labels are as they were, and nothing
\* else in the store has changed.
C31_ConfigMapUpdatedInPlace ==
    [][/\ \A id \in VMIDs : Cardinality(OwnConfigMaps(store', "m1", id)) <= 1
       /\ \A w \in DOMAIN pc :
            /\ ensureConfigMapReturned(w) =>
                  /\ Cardinality(OwnConfigMaps(store', call[w].mig, call[w].vm)) = 1
                  /\ call'[w].obj = OwnConfigMaps(store', call[w].mig, call[w].vm)
            /\ ensureLibvirtConfigMapReturned(w) =>
                  \E old \in OwnConfigMaps(store, call[w].mig, call[w].vm) :
                     /\ old \in call[w].obj
                     /\ store' = (store \ {old}) \cup
                           {[old EXCEPT !.data = [old.data EXCEPT !.inputxml =
                                 libvirtDomain(call[w].vm, call'[w].at)]]}]_vars

\* ensureLibvirtConfigMap has returned to a call that found the VM's ConfigMap
\* in the store: the ConfigMap, still the only one of the VM, describes two
\* disks and keeps the entry the provider gave it.
C31_Witness ==
    \E w \in DOMAIN pc :
        /\ pc[w] = "guestConversionPod"
        /\ call[w].made = {}
        /\ call[w].at = 2
        /\ \E cm \in store :
              /\ OwnConfigMaps(store, call[w].mig, call[w].vm) = {cm}
              /\ cm.data.inputxml = libvirtDomain(call[w].vm, 2)
              /\ cm.data.provider = "metadata"


----------------------------------------------------------------------------
(* Claims about two passes for one VM *)

\* The conversion pods of a VM in a migration.
OwnConversionPods(s, m, id) == List(s, "Pod", conversionLabels(m, id, FALSE))

\* C32: Under two interleaved passes for one VM, the list-then-create steps of
\* ensureSecret and of EnsureGuestConversionPod leave at most one Secret and at
\* most one conversion pod with the VM's labels.
C32_NoDuplicateUnderRace ==
    /\ Cardinality(OwnSecrets(store, "m1", "a")) <= 1
    /\ Cardinality(OwnConversionPods(store, "m1", "a")) <= 1

\* Two passes have each listed the conversion pods of the VM and found none,
\* and each has created one; both have returned.
C32_Witness ==
    /\ \A w \in DOMAIN pc : pc[w] = "idle"
    /\ Cardinality(OwnConversionPods(store, "m1", "a")) = 2


\* GetGuestConversionPod returns in this step, right after an
\* EnsureGuestConversionPod of the same VM and migration that returned no error.
GetFollowsEnsure ==
    /\ last.op = "EnsureGuestConversionPod" /\ last.err = "nil"
    /\ last'.op = "GetGuestConversionPod"
    /\ last'.vm = last.vm /\ last'.mig = last.mig

\* C33: Once EnsureGuestConversionPod has returned without error for a VM, a
\* following GetGuestConversionPod for the VM in the same migration returns a
\* pod, also when a conversion pod of the VM is left from an earlier migration.
C33_GetFindsEnsuredPod ==
    [][GetFollowsEnsure => last'.req # <<>>]_vars

\* EnsureGuestConversionPod has just returned without error in migration m2
\* having created no pod, because the conversion pod of migration m1 is still
\* stored; no conversion pod has the labels of migration m2.
C33_Witness ==
    /\ last.op = "EnsureGuestConversionPod" /\ last.err = "nil" /\ last.mig = "m2"
    /\ \A w \in DOMAIN pc : pc[w] = "idle"
    /\ OwnConversionPods(store, "m1", "a") # {}
    /\ OwnConversionPods(store, "m2", "a") = {}


\* The part of C33 that holds: the pod is returned unless the only conversion
\* pods of the VM are those of another migration.
C33_WithoutLeftover ==
    [][GetFollowsEnsure /\ OwnConversionPods(store, last.mig, last.vm) # {}
          => last'.req # <<>>]_vars


\* C34: A call of EnsureGuestConversionPod for a VM whose conversion pod is
\* already stored (the call before it, for the same VM, returned no error and
\* nothing has touched the store since) creates no object of any kind; for an OVA source, in
\* particular, it adds no PersistentVolume and no PersistentVolumeClaim.
C34_NothingCreatedOncePodExists ==
    SecondOfTwo("EnsureGuestConversionPod") => last.made = {}

\* The second of two calls in a row has returned; the conversion pod of the
\* first is the only one, and the store holds two volumes and two claims of
\* the OVA store.
C34_Witness ==
    /\ last.op = "EnsureGuestConversionPod" /\ last.err = "nil" /\ last.repeat
    /\ \A w \in DOMAIN pc : pc[w] = "idle"
    /\ Cardinality(OwnConversionPods(store, "m1", "a")) = 1
    /\ Cardinality(OfKind(store, "PersistentVolume")) = 2
    /\ Cardinality(List(store, "PersistentVolumeClaim", nfsPvcLabels("m1", "a"))) = 2


----------------------------------------------------------------------------
(* Claims about the completion of the conversion step *)

\* C35: Completion and failure of the step exclude each other.  Whenever
\* UpdateVmByConvertedConfig returns an error, a failure of POST /shutdown
\* other than an end-of-stream included, the call has not marked the step
\* completed and has left its progress as it was.
C35_ErrorLeavesStep ==
    [][\A w \in DOMAIN pc :
         (UpdateVmReturned(w) /\ last'.err # "nil") => step' = step]_vars

\* POST /shutdown timed out: the call has returned the error and the step,
\* not completed before, is completed with its progress at the total.
C35_Witness ==
    /\ last.op = "UpdateVmByConvertedConfig" /\ last.err = "Timeout"
    /\ <<"POST /shutdown", "Timeout">> \in last.log
    /\ step.Completed /\ step.Progress.Completed = step.Progress.Total

\* The part of C35 that holds: an error of GET /ovf, of the read or of the
\* parse leaves the step as it was.
C35_DescriptorErrorLeavesStep ==
    [][\A w \in DOMAIN pc :
         (UpdateVmReturned(w) /\ last'.err # "nil"
            /\ \A x \in last'.log : x[1] # "POST /shutdown") => step' = step]_vars


----------------------------------------------------------------------------
(* Claims about the identifiers of the stored DataVolumes *)

\* C36: After any sequence of EnsureDataVolumes calls for a VM that had no
\* DataVolume at first, no two stored DataVolumes with the VM's labels have
\* the same Builder-resolved identifier, also when one call is given two
\* requested volumes of equal identifier.
C36_IdentifiersUnique ==
    \A id \in VMIDs :
        \A x, y \in OwnDVs(store, "m1", id) : SameIdentifier(x, y) => x = y

\* One call, asked for two volumes of one identifier, has returned: both are
\* stored, and they are the only volumes of the VM.
C36_Witness ==
    /\ \A w \in DOMAIN pc : pc[w] = "idle"
    /\ seq = 2
    /\ \E x, y \in OwnDVs(store, "m1", "a") :
          /\ x # y /\ SameIdentifier(x, y)
          /\ OwnDVs(store, "m1", "a") = {x, y}
          /\ x.data.source # y.data.source

\* The part of C36 that holds: a call creates no volume whose identifier a
\* volume stored before the call has.
C36_UniqueAcrossCalls ==
    \A w \in DOMAIN pc :
        pc[w] # "idle" =>
            \A x \in call[w].made, y \in StoredBefore(w) : ~SameIdentifier(x, y)


----------------------------------------------------------------------------
(* Claims about the owner references EnsureVM writes *)

\* EnsureVM of pass w patches a claim in this step.
EnsureVMPatches(w) ==
    /\ pc[w] = "EnsureVM_patch"
    /\ call'[w].items # call[w].items

\* C37: EnsureVM adds the VM's owner reference to each claim and removes none:
\* every owner reference a claim had before the patch, that of its DataVolume
\* for one, it still has after.
C37_OwnersKept ==
    [][\A w \in DOMAIN pc :
         EnsureVMPatches(w) =>
            \A p \in OfKind(store, "PersistentVolumeClaim") :
               \A q \in OfKind(store', "PersistentVolumeClaim") :
                  q.uid = p.uid => p.owners \subseteq q.owners]_vars

\* EnsureVM has patched the claim of the VM and returned: the claim has the
\* VirtualMachine as its owner and no DataVolume among its owners.
C37_Witness ==
    /\ last.op = "EnsureVM" /\ last.err = "nil"
    /\ <<"Patch", "PersistentVolumeClaim">> \in last.log
    /\ \E p \in ClaimsOf(store, last.mig, last.vm) :
          /\ \E vm \in OwnVMs(store, last.mig, last.vm) : OwnerRef(vm) \in p.owners
          /\ \A r \in p.owners : r.kind # "DataVolume"


----------------------------------------------------------------------------
(* Claims about the status of the OVA store's claim *)

\* Pass w is choosing among several listed claims.
SelectsAmongSeveral(w) ==
    /\ pc[w] = "EnsureOVAVirtV2VPVCStatus"
    /\ pc'[w] # pc[w]
    /\ Len(call[w].req) > 1

\* The switch on the phase: ready exactly for Bound, an error exactly for
\* Lost; and with no claim listed, not ready, with no error but that of a
\* failed list.
PhaseReported(w) ==
    /\ (pc[w] = "EnsureOVAVirtV2VPVCStatus_phase" /\ pc'[w] = "idle") =>
          \E p \in call[w].obj :
             /\ last'.req = <<p.data.phase = "Bound">>
             /\ (last'.err # "nil") <=> (p.data.phase = "Lost")
    /\ (pc[w] = "idle" /\ pc'[w] = "idle" /\ last' # last) =>
          /\ last'.req = <<FALSE>>
          /\ last'.err \in {"nil", "ServerError"}

\* C38: EnsureOVAVirtV2VPVCStatus reports ready exactly when the claim it
\* selected is Bound and an error exactly when it is Lost, and not ready
\* without error when no claim matches; when several claims match, the claim
\* examined was created after the migration, and if none was, the result is
\* not ready without error.
C38_StatusOfSelectedClaim ==
    [][\A w \in DOMAIN pc :
         /\ PhaseReported(w)
         /\ SelectsAmongSeveral(w) =>
               IF \E i \in DOMAIN call[w].req : call[w].req[i].data.after
               THEN /\ pc'[w] = "EnsureOVAVirtV2VPVCStatus_phase"
                    /\ \A p \in call'[w].obj : p.data.after
               ELSE /\ pc'[w] = "idle"
                    /\ last'.err = "nil" /\ last'.req = <<FALSE>>]_vars

\* Two claims were listed, the one created after the migration first; the
\* claim about to be examined is the other, which is Bound while the first is
\* Pending.
C38_Witness ==
    \E w \in DOMAIN pc :
        /\ pc[w] = "EnsureOVAVirtV2VPVCStatus_phase"
        /\ Len(call[w].req) = 2
        /\ call[w].req[1].data.after /\ call[w].req[1].data.phase = "Pending"
        /\ ~call[w].req[2].data.after /\ call[w].req[2].data.phase = "Bound"
        /\ call[w].obj = {call[w].req[2]}

\* The part of C38 that holds whatever the loop leaves in pvc.
C38_PhaseOfExaminedClaim ==
    [][\A w \in DOMAIN pc : PhaseReported(w)]_vars


----------------------------------------------------------------------------
(* Claims about ensureObject with one actor *)

\* ensureObject of pass w returns in this step.
ensureObjectReturns(w) ==
    /\ pc[w] \in {"ensureObject_create", "ensureObject_delete"}
    /\ pc'[w] = "idle"

\* C39: With no other actor, and a server that refuses no Create, ensureObject
\* returns no error and leaves under the object's name exactly the object
\* newly built, stored in the call's last step in the place of the object of
\* that name there was before; and when the delete of the object that was
\* there fails with an error other than not-found, ensureObject tries no more,
\* returns that error and leaves the store as it was.
C39_EnsureObjectReplaces ==
    [][\A w \in DOMAIN pc :
         ensureObjectReturns(w) =>
            \A o \in call[w].obj :
               /\ last'.err \in {"nil", "ServerError"}
               /\ last'.err = "nil" =>
                     \E n \in store' :
                        /\ Stored(store', o) = {n}
                        /\ n \notin store
                        /\ n = [o EXCEPT !.uid = n.uid]
                        /\ store' \ {n} = store
               /\ (last'.err = "ServerError" /\ pc[w] = "ensureObject_delete") =>
                     /\ last'.req = <<"Create", "Delete">>
                     /\ Stored(store, o) # {}
                     /\ store' = store]_vars

\* A call has returned no error after a Create that was rejected, a Delete
\* and a second Create: the secret it stored is the only one of its name, and
\* it is not the secret the behaviour stored first.
C39_Witness ==
    /\ last.op = "EnsureSecret" /\ last.err = "nil"
    /\ last.req = <<"Create", "Delete", "Create">>
    /\ \E n \in last.made :
          /\ Stored(store, n) = {n}
          /\ n.uid > 1

\* The delete of the object that was there failed and the call has returned
\* the error: the object is still stored.
C39_DeleteFailedWitness ==
    /\ last.op = "EnsureSecret" /\ last.err = "ServerError"
    /\ last.req = <<"Create", "Delete">>
    /\ OfKind(store, "Secret") # {}


----------------------------------------------------------------------------
(* Claims about the OpenStack client *)

\* get returns in this step.
getReturns(w) == pc[w] = "get" /\ pc'[w] = "idle"

\* C40: get delivers the resource to its caller.  For every kind it has a case
\* for, when the service's answer is no error, the object the caller handed
\* over holds the data of the resource fetched once get has returned; for a
\* kind it has no case for, get returns an error and the object is as it was.
C40_GetDelivers ==
    [][\A w \in DOMAIN pc :
         getReturns(w) =>
            \A o \in call[w].obj :
               IF o.kind \in SupportedKinds
               THEN last'.err = "nil" =>
                       \E r \in store :
                          /\ r.kind = o.kind /\ r.name = <<call[w].vm>>
                          /\ \A x \in last'.made : x.data = r.data
               ELSE last'.err # "nil" /\ last'.made = {o}]_vars

\* get has returned no error to a caller that asked for the VM r1: the service
\* has the VM, and the caller's object is still the zero value.
C40_Witness ==
    /\ last.op = "get" /\ last.err = "nil"
    /\ last.made = {ZeroObject("VM")}
    /\ \E r \in store : r.kind = "VM" /\ r.name = <<ResourceID>> /\ r.data.value # ""

\* The part of C40 that holds: a kind get has no case for gives an error and
\* the object is left as it was.
C40_UnsupportedKind ==
    [][\A w \in DOMAIN pc :
         getReturns(w) =>
            \A o \in call[w].obj :
               o.kind \notin SupportedKinds =>
                  last'.err # "nil" /\ last'.made = {o}]_vars

=============================================================================
